---- MODULE Spec2Model ----
(***************************************************************************)
(* Solar, an SLR(1) parser generator: the Generator of src/src/solar.ts    *)
(* (impl = "ts"; src/solar-rip.js is the same code) and its sibling        *)
(* src/lib/solar.js (impl = "lib"), from the grammar object to the parse   *)
(* table, and the shift-reduce driver that runs on the table.              *)
(*                                                                         *)
(* Text (action templates, compiled bodies, yytext) is a sequence of       *)
(* one-character strings.  Symbol names are strings, '' is the epsilon     *)
(* marker.  JavaScript Sets and Maps iterate in insertion order: where the *)
(* code depends on that order (items, reductions, rules, states) the model *)
(* keeps a sequence; FIRST/FOLLOW/lookahead sets are plain sets because    *)
(* every use of them is per element.                                       *)
(***************************************************************************)
EXTENDS Integers, Sequences, FiniteSets, TLC

VARIABLES
  impl,            \* which sibling implementation runs: "ts" or "lib"
  grammar,         \* the grammar object handed to the constructor
  pc,              \* position of the generator / driver
  error,           \* message class of the exception thrown, "" if none
  mode,            \* this.mode
  operators,       \* this.operators: token name -> [precedence, assoc]
  symbolIds,       \* this.symbolIds: name -> id
  typeNames,       \* keys of this.types in insertion order
  rules,           \* this.rules (user rules, then the accept rule)
  ruleData,        \* ruleTable: rule id + 1 -> <<lhs id, rhs length>>
  actionGroups,    \* compiled body -> case labels (sequence of groups)
  start,           \* this.start
  nullable,        \* type name -> Type.nullable
  firsts,          \* type name -> Type.firsts
  follows,         \* type name -> Type.follows
  states,          \* the LR(0) states
  marked,          \* worklist index of buildLRAutomaton
  parseTable,      \* this.parseTable, one row per state
  defaultActions,  \* this.defaultActions
  conflicts,       \* this.conflicts
  conflictDetails, \* this.conflictDetails (lib)
  conflictLog,     \* history: <<state, lookahead, rule>> of every `conflicts++`
  stk, val, loc,   \* the driver's three stacks
  symbol,          \* the driver's pending lookahead (NoSymbol = null)
  lexed,           \* tokens the lexer has returned so far
  shifted,         \* tokens shifted so far
  lastReduce,      \* <<rule id, value pushed, stack depth before>> of the last reduce
  result           \* value returned by parse()

vars == <<impl, grammar, pc, error, mode, operators, symbolIds, typeNames,
          rules, ruleData, actionGroups, start, nullable, firsts, follows,
          states, marked, parseTable, defaultActions, conflicts,
          conflictDetails, conflictLog, stk, val, loc, symbol, lexed, shifted,
          lastReduce, result>>

genVars == <<mode, operators, symbolIds, typeNames, rules, ruleData,
             actionGroups, start, nullable, firsts, follows, states, marked,
             parseTable, defaultActions, conflicts, conflictDetails,
             conflictLog>>

runVars == <<stk, val, loc, symbol, lexed, shifted, lastReduce, result>>

----------------------------------------------------------------------------
(* Bounds *)

MaxInputLen == 5      \* tokens the lexer returns before end of input
MaxStackLen == 13     \* cap on the driver's state stack

----------------------------------------------------------------------------
(* Sequences and text *)

Range(s) == {s[i] : i \in 1..Len(s)}

Contains(s, x) == \E i \in 1..Len(s) : s[i] = x

IndexOf(s, x) == CHOOSE i \in 1..Len(s) : s[i] = x /\ \A j \in 1..(i-1) : s[j] # x

Last(s) == s[Len(s)]

DropLast(s, n) == SubSeq(s, 1, Len(s) - n)

RECURSIVE Flatten(_)
Flatten(ss) == IF ss = <<>> THEN <<>> ELSE Head(ss) \o Flatten(Tail(ss))

Digits == <<"0", "1", "2", "3", "4", "5", "6", "7", "8", "9">>

IsDigit(c) == Contains(Digits, c)

DigitVal(c) == IndexOf(Digits, c) - 1

\* String(n) for a natural number
RECURSIVE NatToChars(_)
NatToChars(n) == IF n < 10 THEN <<Digits[n + 1]>>
                 ELSE NatToChars(n \div 10) \o <<Digits[(n % 10) + 1]>>

\* String(n) for an integer
IntToChars(n) == IF n < 0 THEN <<"-">> \o NatToChars(-n) ELSE NatToChars(n)

\* index of the last character of the digit run that starts at i
RECURSIVE DigitsEnd(_, _)
DigitsEnd(s, i) == IF i < Len(s) /\ IsDigit(s[i + 1]) THEN DigitsEnd(s, i + 1) ELSE i

\* value of the digit run s[i..j]
RECURSIVE DigitsVal(_, _, _)
DigitsVal(s, i, j) == IF j < i THEN 0
                      ELSE 10 * DigitsVal(s, i, j - 1) + DigitVal(s[j])

\* String.prototype.trim over blanks
RECURSIVE TrimLeft(_)
TrimLeft(s) == IF s # <<>> /\ Head(s) = " " THEN TrimLeft(Tail(s)) ELSE s

RECURSIVE TrimRight(_)
TrimRight(s) == IF s # <<>> /\ Last(s) = " " THEN TrimRight(DropLast(s, 1)) ELSE s

Trim(s) == TrimRight(TrimLeft(s))

IsPrefix(p, s) == Len(p) <= Len(s) /\ SubSeq(s, 1, Len(p)) = p

Max(S) == CHOOSE x \in S : \A y \in S : y <= x

----------------------------------------------------------------------------
(* JavaScript values that occur in a handle tuple and on the value stack *)

JSUndefined == [t |-> "undefined", s |-> <<>>, n |-> 0, prec |-> ""]
JSString(chars) == [t |-> "string", s |-> chars, n |-> 0, prec |-> ""]
JSNumber(k) == [t |-> "number", s |-> <<>>, n |-> k, prec |-> ""]
JSOptions(p) == [t |-> "object", s |-> <<>>, n |-> 0, prec |-> p]

\* truthiness of a handle element
Truthy(v) == CASE v.t \in {"undefined", "null"} -> FALSE
               [] v.t = "string" -> v.s # <<>>
               [] v.t = "number" -> v.n # 0
               [] OTHER -> TRUE

\* values on the value stack: tagged tuples
Null == <<"null">>
Undef == <<"undefined">>
Str(chars) == <<"str", chars>>
Arr(elems) == <<"arr", elems>>
Thrown == <<"throw">>
\* the action returned nothing and assigned v to this.$
Assigned(v) == <<"assigned", v>>

----------------------------------------------------------------------------
(* The grammar object *)

JSNull == [t |-> "null", s |-> <<>>, n |-> 0, prec |-> ""]

\* a pattern token 'Name[alias]'; alias = "" when the token carries none
Tok(name, alias) == [name |-> name, alias |-> alias]

Pat(names) == [i \in 1..Len(names) |-> Tok(names[i], "")]

\* a bare string alternative: 'A B C'
H0(names) == [arr |-> FALSE, len |-> 0, pat |-> Pat(names),
              h1 |-> JSUndefined, h2 |-> JSUndefined]
\* [pattern]
H1(names) == [arr |-> TRUE, len |-> 1, pat |-> Pat(names),
              h1 |-> JSUndefined, h2 |-> JSUndefined]
\* [pattern, action]
H2(names, a) == [arr |-> TRUE, len |-> 2, pat |-> Pat(names),
                 h1 |-> a, h2 |-> JSUndefined]
\* [pattern, action, options]
H3(names, a, o) == [arr |-> TRUE, len |-> 3, pat |-> Pat(names),
                    h1 |-> a, h2 |-> o]

NT(name, handles) == [name |-> name, handles |-> handles]

\* mode: the `mode` field ("" = absent); key: which map the object carries
\* ("grammar", "bnf" or "" for neither); start: "" = absent
Grammar(md, key, map, ops, st) ==
  [mode |-> md, key |-> key, map |-> map, operators |-> ops, start |-> st]

----------------------------------------------------------------------------
(* processGrammar *)

\* _processOperators: a later row overrides an earlier one
_processOperators(ops) ==
  LET names == UNION {{ops[i][k] : k \in 2..Len(ops[i])} : i \in 1..Len(ops)}
      row(t) == CHOOSE i \in 1..Len(ops) :
                  /\ \E k \in 2..Len(ops[i]) : ops[i][k] = t
                  /\ \A j \in (i+1)..Len(ops) : \A k \in 2..Len(ops[j]) : ops[j][k] # t
  IN [t \in names |-> [precedence |-> row(t), assoc |-> ops[row(t)][1]]]

\* the regex /\[[a-zA-Z_][a-zA-Z0-9_-]*\]/g removes the alias of a pattern token
StripAlias(tok) == tok.name

\* _parseHandle of src/src/solar.ts
_parseHandleTs(h) ==
  IF h.arr
  THEN [symbols |-> [i \in 1..Len(h.pat) |-> StripAlias(h.pat[i])],
        action |-> IF h.h1.t = "string" \/ h.len = 3 THEN h.h1 ELSE JSNull,
        precedence |-> IF Truthy(h.h2) THEN h.h2
                       ELSE IF Truthy(h.h1) /\ h.h1.t # "string" THEN h.h1
                       ELSE JSNull]
  ELSE [symbols |-> [i \in 1..Len(h.pat) |-> StripAlias(h.pat[i])],
        action |-> JSNull, precedence |-> JSNull]

\* _parseHandle of src/lib/solar.js: action = handle[1] ?? 1
_parseHandleLib(h) ==
  IF h.arr
  THEN [symbols |-> [i \in 1..Len(h.pat) |-> StripAlias(h.pat[i])],
        action |-> IF h.h1.t \in {"undefined", "null"} THEN JSNumber(1) ELSE h.h1,
        precedence |-> h.h2]
  ELSE [symbols |-> [i \in 1..Len(h.pat) |-> StripAlias(h.pat[i])],
        action |-> JSNull, precedence |-> JSNull]

_parseHandle(im, h) == IF im = "ts" THEN _parseHandleTs(h) ELSE _parseHandleLib(h)

\* the stack reference of the value stack: '$$[' in solar.ts, '$[' in lib
RefOpen(im) == IF im = "ts" THEN <<"$", "$", "[", "$", "0">> ELSE <<"$", "[", "$", "0">>

\* getToken: `$$[$0${offset || ''}]` with offset = parseInt(n) - symbols.length
getToken(im, n, L) ==
  RefOpen(im) \o (IF n - L = 0 THEN <<>> ELSE IntToChars(n - L)) \o <<"]">>

\* does /(-?\d+)/ match at i; if so the match ends at the returned index, else 0
IntMatchEnd(s, i) ==
  IF i > Len(s) THEN 0
  ELSE IF IsDigit(s[i]) THEN DigitsEnd(s, i)
  ELSE IF s[i] = "-" /\ i < Len(s) /\ IsDigit(s[i + 1]) THEN DigitsEnd(s, i + 1)
  ELSE 0

\* parseInt of the match s[i..e] of /-?\d+/
IntMatchVal(s, i, e) ==
  IF s[i] = "-" THEN - DigitsVal(s, i + 1, e) ELSE DigitsVal(s, i, e)

\* does /(?<!\$)\$(-?\d+)/ match at i; the index where the match ends, else 0
DollarMatchEnd(s, i) ==
  IF i <= Len(s) /\ s[i] = "$" /\ (i = 1 \/ s[i - 1] # "$")
  THEN IntMatchEnd(s, i + 1) ELSE 0

hasDollar(s) == \E i \in 1..Len(s) : DollarMatchEnd(s, i) > 0

\* action.replace(/(-?\d+)/g, getToken)
RECURSIVE ReplaceBare(_, _, _, _)
ReplaceBare(im, s, i, L) ==
  IF i > Len(s) THEN <<>>
  ELSE LET e == IntMatchEnd(s, i)
       IN IF e > 0
          THEN getToken(im, IntMatchVal(s, i, e), L) \o ReplaceBare(im, s, e + 1, L)
          ELSE <<s[i]>> \o ReplaceBare(im, s, i + 1, L)

\* action.replace(/(?<!\$)\$(-?\d+)/gm, getToken)
RECURSIVE ReplaceDollar(_, _, _, _)
ReplaceDollar(im, s, i, L) ==
  IF i > Len(s) THEN <<>>
  ELSE LET e == DollarMatchEnd(s, i)
       IN IF e > 0
          THEN getToken(im, IntMatchVal(s, i + 1, e), L) \o ReplaceDollar(im, s, e + 1, L)
          ELSE <<s[i]>> \o ReplaceDollar(im, s, i + 1, L)

Return(body) == <<"r", "e", "t", "u", "r", "n", " ">> \o body \o <<";">>

ReturnNull == Return(<<"n", "u", "l", "l">>)

\* the body that stands for `throw new Error("Invalid action type ...")`
InvalidAction == <<"!">>

\* the characters of a symbol name
Spell(name) ==
  CASE name = "NUMBER" -> <<"N", "U", "M", "B", "E", "R">>
    [] name = "ITEM" -> <<"I", "T", "E", "M">>
    [] name = "List" -> <<"L", "i", "s", "t">>
    [] name = "Expression" -> <<"E", "x", "p", "r", "e", "s", "s", "i", "o", "n">>
    [] name = "==" -> <<"=", "=">>
    [] name = "Var" -> <<"V", "a", "r">>
    [] name = "Expr" -> <<"E", "x", "p", "r">>
    [] name = "name" -> <<"n", "a", "m", "e">>
    [] name = "value" -> <<"v", "a", "l", "u", "e">>
    [] OTHER -> <<name>>

Letters == {"a", "b", "c", "d", "e", "f", "g", "h", "i", "j", "k", "l", "m",
            "n", "o", "p", "q", "r", "s", "t", "u", "v", "w", "x", "y", "z",
            "A", "B", "C", "D", "E", "F", "G", "H", "I", "J", "K", "L", "M",
            "N", "O", "P", "Q", "R", "S", "T", "U", "V", "W", "X", "Y", "Z"}

\* index of the last character of the run [a-zA-Z0-9_]* that follows s[i]
RECURSIVE IdentEnd(_, _)
IdentEnd(s, i) ==
  IF i < Len(s) /\ (s[i + 1] \in Letters \/ IsDigit(s[i + 1]) \/ s[i + 1] = "_")
  THEN IdentEnd(s, i + 1) ELSE i

\* does /[$@][a-zA-Z][a-zA-Z0-9_]*/ match somewhere
hasNamed(s) ==
  \E i \in 1..(Len(s) - 1) : s[i] \in {"$", "@"} /\ s[i + 1] \in Letters

\* the `names` table of _generateClassAction after the first i symbols, as
\* the list of its assignments <<key, position>>; a later one overrides
RECURSIVE namesOf(_, _)
namesOf(symbols, i) ==
  IF i = 0 THEN <<>>
  ELSE LET before == namesOf(symbols, i - 1)
           key == Spell(symbols[i])
           count == Cardinality({j \in 1..(i - 1) : symbols[j] = symbols[i]})
       IN IF \E n \in 1..Len(before) : before[n][1] = key
          THEN Append(before, <<key \o NatToChars(count + 1), i>>)
          ELSE before \o <<<<key, i>>, <<key \o <<"1">>, i>>>>

\* names[pl], 0 when the key is absent
nameIndex(names, pl) ==
  LET hits == {n \in 1..Len(names) : names[n][1] = pl}
  IN IF hits = {} THEN 0 ELSE names[Max(hits)][2]

\* action.replace(/\$([a-zA-Z][a-zA-Z0-9_]*)/g, ...) and the same for '@'
RECURSIVE ReplaceNamed(_, _, _, _)
ReplaceNamed(s, i, names, sigil) ==
  IF i > Len(s) THEN <<>>
  ELSE IF s[i] = sigil /\ i < Len(s) /\ s[i + 1] \in Letters
  THEN LET e == IdentEnd(s, i + 1)
           at == nameIndex(names, SubSeq(s, i + 1, e))
       IN (IF at # 0 THEN <<sigil>> \o NatToChars(at) ELSE SubSeq(s, i, e))
          \o ReplaceNamed(s, e + 1, names, sigil)
  ELSE <<s[i]>> \o ReplaceNamed(s, i + 1, names, sigil)

\* action.replace(/([^'"])\$\$|^\$\$/g, '$1this.$')
RECURSIVE ReplaceResult(_, _)
ReplaceResult(s, i) ==
  LET this == <<"t", "h", "i", "s", ".", "$">>
  IN IF i > Len(s) THEN <<>>
     ELSE IF i + 2 <= Len(s) /\ s[i] \notin {"'", "\""} /\ s[i + 1] = "$" /\ s[i + 2] = "$"
     THEN <<s[i]>> \o this \o ReplaceResult(s, i + 3)
     ELSE IF i = 1 /\ Len(s) >= 2 /\ s[1] = "$" /\ s[2] = "$"
     THEN this \o ReplaceResult(s, 3)
     ELSE <<s[i]>> \o ReplaceResult(s, i + 1)

\* action.replace(/@[0$]/g, "this._$")
RECURSIVE ReplaceResultLoc(_, _)
ReplaceResultLoc(s, i) ==
  IF i > Len(s) THEN <<>>
  ELSE IF i < Len(s) /\ s[i] = "@" /\ s[i + 1] \in {"0", "$"}
  THEN <<"t", "h", "i", "s", ".", "_", "$">> \o ReplaceResultLoc(s, i + 2)
  ELSE <<s[i]>> \o ReplaceResultLoc(s, i + 1)

\* action.replace(/\$(-?\d+)/g, ...) with open = '$$[$0', and
\* action.replace(/@(-?\d+)/g, ...) with open = '_$[$0'
RECURSIVE ReplacePositional(_, _, _, _, _)
ReplacePositional(s, i, L, sigil, open) ==
  IF i > Len(s) THEN <<>>
  ELSE LET e == IF s[i] = sigil THEN IntMatchEnd(s, i + 1) ELSE 0
           n == IntMatchVal(s, i + 1, e)
       IN IF e > 0
          THEN open \o (IF n - L = 0 THEN <<>> ELSE IntToChars(n - L)) \o <<"]">>
               \o ReplacePositional(s, e + 1, L, sigil, open)
          ELSE <<s[i]>> \o ReplacePositional(s, i + 1, L, sigil, open)

\* _generateClassAction: named references, then $$, @$, $n and @n
_generateClassAction(action, symbols) ==
  LET names == namesOf(symbols, Len(symbols))
      named == IF hasNamed(action)
               THEN ReplaceNamed(ReplaceNamed(action, 1, names, "$"), 1, names, "@")
               ELSE action
      own == ReplaceResultLoc(ReplaceResult(named, 1), 1)
      values == ReplacePositional(own, 1, Len(symbols), "$",
                                  <<"$", "$", "[", "$", "0">>)
  IN ReplacePositional(values, 1, Len(symbols), "@", <<"_", "$", "[", "$", "0">>)

\* _processGrammarAction; symbols is the alias-free symbol list, so L counts
\* the '' of an epsilon pattern as one symbol
_processGrammarAction(im, md, action, symbols) ==
  LET L == Len(symbols)
  IN IF md = "sexp"
     THEN CASE action.t = "string" ->
                 Return(Trim(IF hasDollar(action.s)
                             THEN ReplaceDollar(im, action.s, 1, L)
                             ELSE ReplaceBare(im, action.s, 1, L)))
            [] action.t \in {"number", "undefined"} ->
                 Return(getToken(im, IF action.t = "number" /\ action.n # 0
                                     THEN action.n ELSE 1, L))
            [] OTHER -> ReturnNull
     ELSE CASE action.t = "string" -> _generateClassAction(action.s, symbols)
            [] action.t = "undefined" ->
                 IF L = 0 THEN ReturnNull
                 ELSE Return(<<"$", "$", "[", "1", "]">>)
            [] OTHER -> InvalidAction

\* new Rule(type, symbols, id)
Rule(type, symbols, id) ==
  [id |-> id, type |-> type, symbols |-> symbols, nullable |-> FALSE,
   firsts |-> {}, precedence |-> 0]


\* _assignPrecedence: options.prec if it names an operator, else the rightmost
\* symbol that is an operator and not (yet) a registered type, else 0
_assignPrecedence(ops, typesSoFar, symbols, precedence) ==
  IF precedence.t = "object" /\ precedence.prec # "" /\ precedence.prec \in DOMAIN ops
  THEN ops[precedence.prec].precedence
  ELSE LET idx == {i \in 1..Len(symbols) :
                     symbols[i] \in DOMAIN ops /\ symbols[i] \notin typesSoFar}
       IN IF idx = {} THEN 0 ELSE ops[symbols[Max(idx)]].precedence

\* the pre-seeded symbols: $accept = 0, $end = 1, error = 2
Reserved == <<"$accept", "$end", "error">>

\* addSymbol: order is the list of names that were given a fresh id (3, 4, ...)
addSymbol(order, name) ==
  IF name = "" \/ Contains(Reserved, name) \/ Contains(order, name)
  THEN order ELSE Append(order, name)

RECURSIVE addSymbols(_, _)
addSymbols(order, names) ==
  IF names = <<>> THEN order
  ELSE addSymbols(addSymbol(order, Head(names)), Tail(names))

IdIn(order, name) ==
  IF Contains(Reserved, name) THEN IndexOf(Reserved, name) - 1
  ELSE IndexOf(order, name) + 2

\* actionGroups[body].push(label) or actionGroups[body] = [label]
addLabel(groups, body, id) ==
  IF \E i \in 1..Len(groups) : groups[i].body = body
  THEN [i \in 1..Len(groups) |->
          IF groups[i].body = body
          THEN [groups[i] EXCEPT !.labels = Append(@, id)] ELSE groups[i]]
  ELSE Append(groups, [body |-> body, labels |-> <<id>>])

\* is a case emitted for the parsed action: `action != null` in solar.ts,
\* `if (action)` in lib
hasCase(im, action) ==
  IF im = "ts" THEN action.t \notin {"null", "undefined"} ELSE Truthy(action)

\* one iteration of `for (const handle of handles)` in _buildRules
buildRule(im, md, ops, typesSoFar, type, h, acc) ==
  LET ph == _parseHandle(im, h)
      order1 == addSymbols(acc.order, ph.symbols)
      body == _processGrammarAction(im, md, ph.action, ph.symbols)
      id == Len(acc.rules) + 1
      rule == [Rule(type, ph.symbols, id) EXCEPT
                 !.precedence = _assignPrecedence(ops, typesSoFar, ph.symbols,
                                                  ph.precedence)]
  IN IF acc.err # "" THEN acc
     ELSE IF hasCase(im, ph.action) /\ body = InvalidAction
     THEN [acc EXCEPT !.order = order1, !.err = "invalid action type"]
     ELSE [order |-> order1,
           rules |-> Append(acc.rules, rule),
           groups |-> IF hasCase(im, ph.action)
                      THEN addLabel(acc.groups, body, id) ELSE acc.groups,
           table |-> Append(acc.table,
                       <<IdIn(order1, type),
                         IF ph.symbols # <<>> /\ ph.symbols[1] = ""
                         THEN 0 ELSE Len(ph.symbols)>>),
           err |-> ""]

RECURSIVE buildHandles(_, _, _, _, _, _, _)
buildHandles(im, md, ops, typesSoFar, type, hs, acc) ==
  IF hs = <<>> THEN acc
  ELSE buildHandles(im, md, ops, typesSoFar, type, Tail(hs),
                    buildRule(im, md, ops, typesSoFar, type, Head(hs), acc))

\* `for (const type in grammar)` from the i-th key on
RECURSIVE buildTypes(_, _, _, _, _, _)
buildTypes(im, md, ops, map, i, acc) ==
  IF i > Len(map) THEN acc
  ELSE buildTypes(im, md, ops, map, i + 1,
         buildHandles(im, md, ops, {map[j].name : j \in 1..i}, map[i].name,
                      map[i].handles,
                      [acc EXCEPT !.order = addSymbol(@, map[i].name)]))

\* _buildRules: ruleTable starts with the entry of rule 0
_buildRules(im, md, ops, map) ==
  buildTypes(im, md, ops, map, 1,
             [order |-> <<>>, rules |-> <<>>, groups |-> <<>>,
              table |-> <<<<0, 0>>>>, err |-> ""])

\* this.start = grammar.start || this.rules[0].type
startOf(g, rs) == IF g.start # "" THEN g.start ELSE rs[1].type

\* _augmentGrammar: the error it throws, "" if none
augmentError(g, rs) ==
  IF rs = <<>> THEN "no rules defined"
  ELSE IF \A i \in 1..Len(g.map) : g.map[i].name # startOf(g, rs)
  THEN "no start symbol" ELSE ""

acceptRule(st) == Rule("$accept", <<st, "$end">>, 0)

----------------------------------------------------------------------------
(* buildLRAutomaton.  An item is <<rule id, dot>>. *)

\* the rule with the given id: user rules sit at index id, the accept rule
\* (id 0) is the last element (acceptRuleIndex)
RuleById(rs, id) == IF id = 0 THEN rs[Len(rs)] ELSE rs[id]

\* Item.nextSymbol = rule.symbols[dot]; "" stands for undefined as well as ''
nextSymbol(rs, item) ==
  LET syms == RuleById(rs, item[1]).symbols
  IN IF item[2] + 1 <= Len(syms) THEN syms[item[2] + 1] ELSE ""

\* type.rules: the rules of a type in rule order
RulesOf(rs, type) == SelectSeq(rs, LAMBDA r : r.type = type)

\* new State()
State == [id |-> -1, items |-> <<>>, transitions |-> <<>>, reductions |-> <<>>,
          hasShifts |-> FALSE, hasConflicts |-> FALSE, signature |-> <<>>,
          lookaheads |-> <<>>]

\* the body of `for (const item of workingSet)` for one item: acc.set is the
\* closure so far, acc.new the items queued for the next round
closureItem(rs, types, item, acc) ==
  LET set == acc.set
      nx == nextSymbol(rs, item)
      rsOf == RulesOf(rs, nx)
      fresh == SelectSeq([i \in 1..Len(rsOf) |-> <<rsOf[i].id, 0>>],
                         LAMBDA it : ~ Contains(set.items, it) /\ it # item)
  IN IF Contains(set.items, item) THEN acc
     ELSE IF nx = ""
     THEN [acc EXCEPT !.set = [set EXCEPT
             !.items = Append(@, item),
             !.reductions = Append(@, item),
             !.lookaheads = Append(@, {}),
             !.hasConflicts = Len(set.reductions) + 1 > 1 \/ set.hasShifts]]
     ELSE IF nx \notin types
     THEN [acc EXCEPT !.set = [set EXCEPT
             !.items = Append(@, item),
             !.hasShifts = TRUE,
             !.hasConflicts = Len(set.reductions) > 0]]
     ELSE [set |-> [set EXCEPT !.items = Append(@, item)],
           new |-> acc.new \o fresh]

\* the while loop of _closure: work is the rest of the current workingSet
RECURSIVE closureLoop(_, _, _, _)
closureLoop(rs, types, work, acc) ==
  IF work = <<>>
  THEN IF acc.new = <<>> THEN acc.set
       ELSE closureLoop(rs, types, acc.new, [acc EXCEPT !.new = <<>>])
  ELSE closureLoop(rs, types, Tail(work), closureItem(rs, types, Head(work), acc))

_closure(rs, types, items) ==
  closureLoop(rs, types, items, [set |-> State, new |-> <<>>])

\* _goto that advances only the first item with `sym` after the dot
_gotoFirstItem(rs, types, st, sym) ==
  LET sel == SelectSeq(st.items, LAMBDA it : nextSymbol(rs, it) = sym)
  IN IF sel = <<>> THEN State
     ELSE _closure(rs, types, <<<<sel[1][1], sel[1][2] + 1>>>>)

\* _goto: advance every item of the state that has `sym` after the dot
_goto(rs, types, st, sym) ==
  LET sel == SelectSeq(st.items, LAMBDA it : nextSymbol(rs, it) = sym)
      adv == [i \in 1..Len(sel) |-> <<sel[i][1], sel[i][2] + 1>>]
  IN IF adv = <<>> THEN State ELSE _closure(rs, types, adv)

ItemLess(a, b) == a[1] < b[1] \/ (a[1] = b[1] /\ a[2] < b[2])

\* kernel.sort((a, b) => (a[0] - b[0]) || (a[1] - b[1])) on distinct pairs
RECURSIVE SortItems(_)
SortItems(S) ==
  IF S = {} THEN <<>>
  ELSE LET m == CHOOSE x \in S : \A y \in S \ {x} : ItemLess(x, y)
       IN <<m>> \o SortItems(S \ {m})

\* the kernel signature of the successor of `st` on `sym`
\* a kernel signature of rule ids only, the dot positions left out
kernelSigRules(rs, st, sym) ==
  SortItems({<<it[1], 1>> :
               it \in {x \in Range(st.items) : nextSymbol(rs, x) = sym}})

\* a kernel signature that also tells whether the source is the first state,
\* so that a kernel reached from state 0 is not found again from elsewhere
kernelSigBySource(rs, st, sym) ==
  (IF st.id = 0 THEN <<<<0, 0>>>> ELSE <<>>) \o
  SortItems({<<it[1], it[2] + 1>> :
               it \in {x \in Range(st.items) : nextSymbol(rs, x) = sym}})

kernelSig(rs, st, sym) ==
  SortItems({<<it[1], it[2] + 1>> :
               it \in {x \in Range(st.items) : nextSymbol(rs, x) = sym}})

\* the grouping without the test `item.nextSymbol !== '$end'`
RECURSIVE symbolOrderWithEnd(_, _, _)
symbolOrderWithEnd(rs, items, seen) ==
  IF items = <<>> THEN seen
  ELSE LET nx == nextSymbol(rs, Head(items))
       IN symbolOrderWithEnd(rs, Tail(items),
            IF nx = "" \/ Contains(seen, nx) THEN seen ELSE Append(seen, nx))

\* keys of symbolItems in insertion order: the symbols after a dot, without
\* '' / undefined and without $end, in order of first appearance
RECURSIVE symbolOrder(_, _, _)
symbolOrder(rs, items, seen) ==
  IF items = <<>> THEN seen
  ELSE LET nx == nextSymbol(rs, Head(items))
       IN symbolOrder(rs, Tail(items),
            IF nx = "" \/ nx = "$end" \/ Contains(seen, nx)
            THEN seen ELSE Append(seen, nx))

\* _insertStateWithItems without the lookup in stateMap: every successor is
\* a new state
_insertStateNoLookup(rs, types, sts, k, sym) ==
  LET src == [sts[k] EXCEPT !.transitions = (sym :> Len(sts)) @@ @]
      linked == [sts EXCEPT ![k] = src]
      gotoSet == _goto(rs, types, sts[k], sym)
  IN Append(linked, [gotoSet EXCEPT !.signature = kernelSig(rs, sts[k], sym),
                                     !.id = Len(sts)])

\* _insertStateWithItems for the state at index k (id k - 1) and one symbol
_insertStateWithItems(rs, types, sts, k, sym) ==
  LET sig == kernelSig(rs, sts[k], sym)
      known == {i \in 1..Len(sts) : sts[i].signature = sig}
      target == IF known # {} THEN (CHOOSE i \in known : TRUE) - 1 ELSE Len(sts)
      src == [sts[k] EXCEPT !.transitions = (sym :> target) @@ @]
      linked == [sts EXCEPT ![k] = src]
      gotoSet == _goto(rs, types, sts[k], sym)
  IN IF known # {} THEN linked
     ELSE Append(linked, [gotoSet EXCEPT !.signature = sig, !.id = Len(sts)])

RECURSIVE insertAll(_, _, _, _, _)
insertAll(rs, types, sts, k, syms) ==
  IF syms = <<>> THEN sts
  ELSE insertAll(rs, types,
                 _insertStateWithItems(rs, types, sts, k, Head(syms)), k, Tail(syms))

\* the first state without `firstState.id = 0`
firstStateUnnumbered(rs, types) ==
  [_closure(rs, types, <<<<0, 0>>>>) EXCEPT !.signature = <<<<0, 0>>>>]

\* the first state: closure of [$accept -> . start $end], signature '0.0'
firstState(rs, types) ==
  [_closure(rs, types, <<<<0, 0>>>>) EXCEPT !.id = 0, !.signature = <<<<0, 0>>>>]

----------------------------------------------------------------------------
(* processLookaheads: NULLABLE, FIRST, FOLLOW and item lookaheads *)

\* _isNullable of one symbol: '' is nullable, a token is not
_isNullable(nl, sym) == IF sym = "" THEN TRUE
                        ELSE IF sym \in DOMAIN nl THEN nl[sym] ELSE FALSE

\* _isNullable of an array: every symbol is nullable
_isNullableSeq(nl, syms) == \A i \in 1..Len(syms) : _isNullable(nl, syms[i])

\* a pass that also drops the '' marker from the symbols of a rule it marks
nullableRulesStrip(rs, nl) ==
  [i \in 1..Len(rs) |->
     IF ~ rs[i].nullable /\ _isNullableSeq(nl, rs[i].symbols)
     THEN [rs[i] EXCEPT !.nullable = TRUE,
                        !.symbols = SelectSeq(@, LAMBDA x : x # "")]
     ELSE rs[i]]

\* one pass of the while loop of _computeNullableSets: first the rules (reading
\* the type flags), then the types (reading the new rule flags)
nullableRules(rs, nl) ==
  [i \in 1..Len(rs) |->
     IF ~ rs[i].nullable /\ _isNullableSeq(nl, rs[i].symbols)
     THEN [rs[i] EXCEPT !.nullable = TRUE] ELSE rs[i]]

nullableTypes(rs, nl) ==
  [t \in DOMAIN nl |->
     IF ~ _isNullable(nl, t) /\ \E i \in 1..Len(rs) : rs[i].type = t /\ rs[i].nullable
     THEN TRUE ELSE nl[t]]

\* _computeFirstOfSequence: accumulate up to and including the first symbol
\* that is not nullable; a symbol that is not a type is added as it is
RECURSIVE _computeFirstOfSequence(_, _, _)
_computeFirstOfSequence(nl, fs, syms) ==
  IF syms = <<>> THEN {}
  ELSE LET sym == Head(syms)
           here == IF sym \in DOMAIN fs THEN fs[sym] ELSE {sym}
       IN IF _isNullable(nl, sym)
          THEN here \cup _computeFirstOfSequence(nl, fs, Tail(syms))
          ELSE here

\* one pass of the while loop of _computeFirstSets
firstRules(rs, nl, fs) ==
  [i \in 1..Len(rs) |->
     [rs[i] EXCEPT !.firsts = _computeFirstOfSequence(nl, fs, rs[i].symbols)]]

firstTypes(rs, fs) ==
  [t \in DOMAIN fs |-> UNION {rs[i].firsts : i \in {j \in 1..Len(rs) : rs[j].type = t}}]

firstChanged(rs, fs, rs2, fs2) ==
  \/ \E i \in 1..Len(rs) : Cardinality(rs2[i].firsts) > Cardinality(rs[i].firsts)
  \/ \E t \in DOMAIN fs : Cardinality(fs2[t]) > Cardinality(fs[t])

\* the body with FOLLOW(LHS) added whether beta is nullable or not
followAtAlways(nl, fs, fo, rule, i) ==
  LET sym == rule.symbols[i]
      beta == SubSeq(rule.symbols, i + 1, Len(rule.symbols))
      add == _computeFirstOfSequence(nl, fs, beta) \cup fo[rule.type]
  IN IF sym \in DOMAIN fo THEN [fo EXCEPT ![sym] = @ \cup add] ELSE fo

\* the body of the inner for loop of _computeFollowSets for symbols[i] of a
\* rule, on the follow sets as they are at that moment
followAt(nl, fs, fo, rule, i) ==
  LET sym == rule.symbols[i]
      beta == SubSeq(rule.symbols, i + 1, Len(rule.symbols))
      add == IF i = Len(rule.symbols) THEN fo[rule.type]
             ELSE _computeFirstOfSequence(nl, fs, beta) \cup
                  (IF _isNullableSeq(nl, beta) THEN fo[rule.type] ELSE {})
  IN IF sym \in DOMAIN fo THEN [fo EXCEPT ![sym] = @ \cup add] ELSE fo

RECURSIVE followRule(_, _, _, _, _)
followRule(nl, fs, fo, rule, i) ==
  IF i > Len(rule.symbols) THEN fo
  ELSE followRule(nl, fs, followAt(nl, fs, fo, rule, i), rule, i + 1)

\* a pass that leaves out the first rule of this.rules
RECURSIVE followPassSkipFirst(_, _, _, _, _)
followPassSkipFirst(rs, nl, fs, fo, k) ==
  IF k > Len(rs) THEN fo
  ELSE followPassSkipFirst(rs, nl, fs,
         IF k = 1 THEN fo ELSE followRule(nl, fs, fo, rs[k], 1), k + 1)

\* one pass of the while loop of _computeFollowSets, from rule index k on
RECURSIVE followPass(_, _, _, _, _)
followPass(rs, nl, fs, fo, k) ==
  IF k > Len(rs) THEN fo
  ELSE followPass(rs, nl, fs, followRule(nl, fs, fo, rs[k], 1), k + 1)

\* _assignItemLookaheads: every reduction item gets FOLLOW of its rule's type
_assignItemLookaheads(rs, fo, sts) ==
  [k \in 1..Len(sts) |->
     [sts[k] EXCEPT !.lookaheads =
        [j \in 1..Len(sts[k].reductions) |->
           LET type == RuleById(rs, sts[k].reductions[j][1]).type
           IN IF type \in DOMAIN fo THEN fo[type] ELSE sts[k].lookaheads[j]]]]

----------------------------------------------------------------------------
(* buildParseTable.  A table entry is [k, n]: [SHIFT, state], [REDUCE, rule], *)
(* [ACCEPT], a plain goto state id, or a key whose value is undefined.        *)

Shift(n) == [k |-> "shift", n |-> n]
Reduce(n) == [k |-> "reduce", n |-> n]
Accept == [k |-> "accept", n |-> 0]
Goto(n) == [k |-> "goto", n |-> n]
Undefined == [k |-> "undefined", n |-> 0]
\* the value 0 that _resolveConflict returns for a nonassoc tie
NONASSOC == [k |-> "nonassoc", n |-> 0]

\* state[key] read as a JavaScript value: a missing key reads as undefined
Entry(row, key) == IF key \in DOMAIN row THEN row[key] ELSE Undefined

\* _resolveConflict with the precedence comparison the wrong way round
_resolveConflictReversed(rule, ops, t, existing) ==
  LET reduce == Reduce(rule.id)
      hasOp == t \in DOMAIN ops
  IN IF existing.k = "reduce"
     THEN [action |-> IF existing.n < rule.id THEN existing ELSE reduce,
           bydefault |-> existing.n # rule.id]
     ELSE IF rule.precedence = 0 \/ ~ hasOp
     THEN [action |-> existing, bydefault |-> TRUE]
     ELSE IF rule.precedence > ops[t].precedence
     THEN [action |-> existing, bydefault |-> FALSE]
     ELSE IF rule.precedence = ops[t].precedence
     THEN [action |-> CASE ops[t].assoc = "right" -> existing
                        [] ops[t].assoc = "left" -> reduce
                        [] ops[t].assoc = "nonassoc" -> NONASSOC
                        [] OTHER -> existing,
           bydefault |-> FALSE]
     ELSE [action |-> reduce, bydefault |-> FALSE]

\* _resolveConflict(rule, op, [REDUCE, rule.id], existing); ops is the operator
\* table and t the lookahead, so that op = ops[t] or undefined
_resolveConflict(rule, ops, t, existing) ==
  LET reduce == Reduce(rule.id)
      hasOp == t \in DOMAIN ops
  IN IF existing.k = "reduce"
     THEN [action |-> IF existing.n < rule.id THEN existing ELSE reduce,
           bydefault |-> existing.n # rule.id]
     ELSE IF rule.precedence = 0 \/ ~ hasOp
     THEN [action |-> existing, bydefault |-> TRUE]
     ELSE IF rule.precedence < ops[t].precedence
     THEN [action |-> existing, bydefault |-> FALSE]
     ELSE IF rule.precedence = ops[t].precedence
     THEN [action |-> CASE ops[t].assoc = "right" -> existing
                        [] ops[t].assoc = "left" -> reduce
                        [] ops[t].assoc = "nonassoc" -> NONASSOC
                        [] OTHER -> existing,
           bydefault |-> FALSE]
     ELSE [action |-> reduce, bydefault |-> FALSE]

\* the inner reduce loop without the resolution: an existing entry always stays
writeActionKeep(rule, ops, t, existing) ==
  IF existing.k = "undefined" THEN Reduce(rule.id) ELSE existing

\* the value written at state[key] by one pass of the inner reduce loop
writeAction(rule, ops, t, existing) ==
  IF existing.k = "undefined" THEN Reduce(rule.id)
  ELSE LET sol == _resolveConflict(rule, ops, t, existing)
       IN IF sol.bydefault THEN existing
          ELSE IF sol.action = NONASSOC THEN Undefined
          ELSE sol.action

\* the categories without the rule shapes: every reduce/reduce is 'reduce-reduce'
categoryByKind(rule, ops, types, t, existing) ==
  IF existing.k = "reduce" THEN "reduce-reduce" ELSE "ambiguous"

\* lib: the category of a conflict that was resolved by default
category(rule, ops, types, t, existing) ==
  LET isEmpty == Len(rule.symbols) = 0 \/
                 (Len(rule.symbols) = 1 /\ rule.symbols[1] = "")
      isPassthrough == Len(rule.symbols) = 1 /\ rule.symbols[1] \in types
      hasPrecedence == t \in DOMAIN ops /\ rule.precedence > 0
      isReduceReduce == existing.k = "reduce"
  IN CASE isEmpty -> "empty-optional"
       [] ~ isEmpty /\ isPassthrough -> "passthrough"
       [] ~ isEmpty /\ ~ isPassthrough /\ hasPrecedence -> "precedence"
       [] ~ isEmpty /\ ~ isPassthrough /\ ~ hasPrecedence /\ isReduceReduce
            -> "reduce-reduce"
       [] OTHER -> "ambiguous"

\* is the conflict counted: always in solar.ts, by category in lib
counted(im, cat) == im = "ts" \/ cat \in {"reduce-reduce", "ambiguous"}

\* rows after the transitions and the accept action
shiftRow(rs, ids, types, st) ==
  LET syms == {x \in DOMAIN st.transitions : x \in DOMAIN ids}
      hasEnd == \E i \in 1..Len(st.items) : nextSymbol(rs, st.items[i]) = "$end"
      keys == {ids[x] : x \in syms} \cup (IF hasEnd THEN {ids["$end"]} ELSE {})
  IN [key \in keys |->
        IF hasEnd /\ key = ids["$end"] THEN Accept
        ELSE LET x == CHOOSE y \in syms : ids[y] = key
             IN IF x \in types THEN Goto(st.transitions[x])
                ELSE Shift(st.transitions[x])]

\* `for (const stackSymbol of item.lookaheads)` for the j-th reduction item of
\* state k (0-based id kid): every lookahead has its own key, so the passes
\* do not read each other's writes
reduceItem(im, rs, ids, ops, types, st, kid, j, acc) ==
  LET rule == RuleById(rs, st.reductions[j][1])
      las == {t \in st.lookaheads[j] : t \in DOMAIN ids}
      old(t) == Entry(acc.row, ids[t])
      clash == {t \in las : old(t).k # "undefined" /\
                            _resolveConflict(rule, ops, t, old(t)).bydefault}
      cat(t) == category(rule, ops, types, t, old(t))
      keys == DOMAIN acc.row \cup {ids[t] : t \in las}
  IN [row |-> [key \in keys |->
                 IF \E t \in las : ids[t] = key
                 THEN LET t == CHOOSE u \in las : ids[u] = key
                      IN writeAction(rule, ops, t, old(t))
                 ELSE acc.row[key]],
      conflicts |-> acc.conflicts +
                    Cardinality({t \in clash : counted(im, cat(t))}),
      details |-> acc.details \cup
                  {[state |-> kid, lookahead |-> t, rule |-> rule.id,
                    shift |-> IF old(t).k = "shift" THEN old(t).n ELSE -1,
                    resolution |-> IF old(t).k = "shift" THEN "shift" ELSE "reduce",
                    category |-> cat(t)] :
                   t \in {u \in clash : im = "lib" /\ counted(im, cat(u))}},
      log |-> acc.log \cup
              {<<kid, t, rule.id>> : t \in {u \in clash : counted(im, cat(u))}}]

RECURSIVE reduceItems(_, _, _, _, _, _, _, _, _)
reduceItems(im, rs, ids, ops, types, st, kid, j, acc) ==
  IF j > Len(st.reductions) THEN acc
  ELSE reduceItems(im, rs, ids, ops, types, st, kid, j + 1,
                   reduceItem(im, rs, ids, ops, types, st, kid, j, acc))

\* one iteration of `for (let k = 0; k < itemSets.length; k++)`
buildRow(im, rs, ids, ops, types, st, kid, cnt, det, log) ==
  reduceItems(im, rs, ids, ops, types, st, kid, 1,
              [row |-> shiftRow(rs, ids, types, st), conflicts |-> cnt,
               details |-> det, log |-> log])

\* _computeDefaultActions (solar.ts): a row with exactly one key whose value
\* is a reduce; reading [0] of an undefined value throws a TypeError
defaultThrows(tbl) ==
  \E k \in 1..Len(tbl) :
     Cardinality(DOMAIN tbl[k]) = 1 /\
     \E key \in DOMAIN tbl[k] : tbl[k][key].k = "undefined"

\* a default for every row whose entries are all reduces of one rule
_computeDefaultActionsAll(tbl) ==
  LET ks == {k \in 1..Len(tbl) :
               DOMAIN tbl[k] # {} /\
               \E n \in 1..100 : \A key \in DOMAIN tbl[k] : tbl[k][key] = Reduce(n)}
  IN [sid \in {k - 1 : k \in ks} |->
        tbl[sid + 1][CHOOSE key \in DOMAIN tbl[sid + 1] : TRUE]]

_computeDefaultActions(tbl) ==
  LET ks == {k \in 1..Len(tbl) :
               Cardinality(DOMAIN tbl[k]) = 1 /\
               \E key \in DOMAIN tbl[k] : tbl[k][key].k = "reduce"}
  IN [sid \in {k - 1 : k \in ks} |->
        tbl[sid + 1][CHOOSE key \in DOMAIN tbl[sid + 1] : TRUE]]

----------------------------------------------------------------------------
(* The generated action function: `switch (yystate) { case n: <body> }`     *)
(* evaluated by the JavaScript engine.  The bodies the grammars below       *)
(* produce are `return <expr>;` with <expr> a stack reference, a string     *)
(* literal, null or an array literal of those (with spread).                *)

\* a value the evaluator below does not cover
Unevaluated == <<"unevaluated">>

RECURSIVE SkipBlanks(_, _)
SkipBlanks(s, i) == IF i <= Len(s) /\ s[i] = " " THEN SkipBlanks(s, i + 1) ELSE i

StartsAt(s, i, p) == i + Len(p) - 1 <= Len(s) /\ SubSeq(s, i, i + Len(p) - 1) = p

\* val[index] for a 0-based JavaScript index
At(vals, index) == IF index >= 0 /\ index < Len(vals) THEN vals[index + 1] ELSE Undef

\* index of the closing quote of the string literal opened before i
RECURSIVE QuoteEnd(_, _)
QuoteEnd(s, i) == IF i > Len(s) THEN 0
                  ELSE IF s[i] = "\"" THEN i ELSE QuoteEnd(s, i + 1)

\* [...x]: the elements x spreads to, Thrown when x is not iterable
SpreadOf(v) == CASE v[1] = "arr" -> v[2]
                 [] v[1] = "str" -> [i \in 1..Len(v[2]) |-> Str(<<v[2][i]>>)]
                 [] OTHER -> <<Thrown>>

\* evaluate the expression that starts at s[i]: [v |-> value, i |-> next index]
RECURSIVE EvalExpr(_, _, _, _)
RECURSIVE EvalElems(_, _, _, _, _)
EvalExpr(im, s, i0, vals) ==
  LET i == SkipBlanks(s, i0)
      open == RefOpen(im)
      j == i + Len(open)
  IN IF i > Len(s) THEN [v |-> Undef, i |-> i]
     ELSE IF StartsAt(s, i, open)
     THEN \* $$[$0], $$[$0-k], or the identifier $0k (not defined: ReferenceError)
          IF j <= Len(s) /\ s[j] = "]"
          THEN [v |-> At(vals, Len(vals) - 1), i |-> j + 1]
          ELSE IF j < Len(s) /\ s[j] = "-" /\ IsDigit(s[j + 1])
          THEN LET e == DigitsEnd(s, j + 1)
               IN IF e < Len(s) /\ s[e + 1] = "]"
                  THEN [v |-> At(vals, Len(vals) - 1 - DigitsVal(s, j + 1, e)),
                        i |-> e + 2]
                  ELSE [v |-> Unevaluated, i |-> Len(s) + 1]
          ELSE IF j <= Len(s) /\ IsDigit(s[j])
          THEN [v |-> Thrown, i |-> Len(s) + 1]
          ELSE [v |-> Unevaluated, i |-> Len(s) + 1]
     ELSE IF StartsAt(s, i, RefOpen(IF im = "ts" THEN "lib" ELSE "ts"))
     THEN \* the stack variable of the other generator is not declared here
          [v |-> Thrown, i |-> Len(s) + 1]
     ELSE IF s[i] = "\""
     THEN LET e == QuoteEnd(s, i + 1)
          IN IF e = 0 THEN [v |-> Thrown, i |-> Len(s) + 1]
             ELSE [v |-> Str(SubSeq(s, i + 1, e - 1)), i |-> e + 1]
     ELSE IF StartsAt(s, i, <<"n", "u", "l", "l">>)
     THEN [v |-> Null, i |-> i + 4]
     ELSE IF s[i] = "["
     THEN IF SkipBlanks(s, i + 1) <= Len(s) /\ s[SkipBlanks(s, i + 1)] = "]"
          THEN [v |-> Arr(<<>>), i |-> SkipBlanks(s, i + 1) + 1]
          ELSE EvalElems(im, s, i + 1, vals, <<>>)
     ELSE [v |-> Unevaluated, i |-> Len(s) + 1]

\* the elements of an array literal from s[i] on, after the elements in acc
EvalElems(im, s, i0, vals, acc) ==
  LET i == SkipBlanks(s, i0)
      spread == StartsAt(s, i, <<".", ".", ".">>)
      r == EvalExpr(im, s, IF spread THEN i + 3 ELSE i, vals)
      got == IF spread THEN SpreadOf(r.v) ELSE <<r.v>>
      k == SkipBlanks(s, r.i)
  IN IF r.v \in {Thrown, Unevaluated} THEN r
     ELSE IF got = <<Thrown>> THEN [v |-> Thrown, i |-> Len(s) + 1]
     ELSE IF k <= Len(s) /\ s[k] = ","
     THEN EvalElems(im, s, k + 1, vals, acc \o got)
     ELSE IF k <= Len(s) /\ s[k] = "]"
     THEN [v |-> Arr(acc \o got), i |-> k + 1]
     ELSE [v |-> Unevaluated, i |-> Len(s) + 1]

\* run a compiled body on the value stack: what the function returns, or
\* Assigned(v) when the body is `this.$ = <expr>;`
EvalBody(im, body, vals) ==
  LET ret == <<"r", "e", "t", "u", "r", "n">>
      asg == <<"t", "h", "i", "s", ".", "$", " ", "=", " ">>
      pre == IF IsPrefix(ret, body) THEN ret ELSE asg
      inner == SubSeq(body, Len(pre) + 1, Len(body) - 1)
      r == EvalExpr(im, inner, 1, vals)
  IN IF ~ IsPrefix(pre, body) \/ Last(body) # ";" THEN Unevaluated
     ELSE IF Trim(inner) = <<>> THEN (IF pre = ret THEN Undef ELSE Thrown)
     ELSE IF r.v \in {Thrown, Unevaluated} THEN r.v
     ELSE IF SkipBlanks(inner, r.i) <= Len(inner) THEN Unevaluated
     ELSE IF pre = ret THEN r.v ELSE Assigned(r.v)

\* performAction / ruleActions: the case of the rule, undefined when there is none
performAction(im, groups, rid, vals) ==
  LET hit == {g \in 1..Len(groups) : Contains(groups[g].labels, rid)}
  IN IF hit = {} THEN Undef
     ELSE EvalBody(im, groups[CHOOSE g \in hit : TRUE].body, vals)

----------------------------------------------------------------------------
(* The lexer (an external collaborator) and the driver's table lookup *)

\* `symbol = null`
NoSymbol == -1
\* a token name that is not in symbolIds stays a string
UnknownSymbol == -2
\* `undefined` pushed as a state
UndefState == -1
EOF == 1
TERROR == 2

\* what lexer.lex() can return next: a token name of the grammar, a name the
\* grammar does not know, or end of input (1 or a falsy value)
LexerTokens(ids, types) ==
  {x \in DOMAIN ids : ids[x] > TERROR /\ x \notin types} \cup {"?", "$eof"}

\* lex() with the fallback applied to the looked-up id instead of the token
lexOrEnd(ids, tok) == IF tok = "$eof" THEN EOF
                      ELSE IF tok \in DOMAIN ids /\ ids[tok] # 0 THEN ids[tok]
                      ELSE EOF

\* lex(): token = lexer.lex() || EOF; symbolIds[token] || token
lex(ids, tok) == IF tok = "$eof" THEN EOF
                 ELSE IF tok \in DOMAIN ids /\ ids[tok] # 0 THEN ids[tok]
                 ELSE UnknownSymbol

\* lexer.yytext after the lexer returned the tokens in `toks`: the example
\* lexer sets it to the matched text - the k-th number, the k-th item, or the
\* one-character token itself
yytextOf(toks) ==
  LET name == Last(toks)
      k == Cardinality({i \in 1..Len(toks) : toks[i] = name})
  IN CASE name = "NUMBER" -> <<Digits[((k + 1) % 10) + 1]>>
       [] name = "ITEM" -> <<(<<"a", "b", "c", "d", "e", "f", "g", "h">>)[((k - 1) % 8) + 1]>>
       [] name = "==" -> <<"=", "=">>
       [] OTHER -> <<name>>

\* lexer.yylloc after the lexer returned the tokens in `toks`
yyllocOf(toks) == [first |-> Len(toks), last |-> Len(toks)]

\* lib: _generateTableCode, the flat value of an entry: shift and goto are the
\* state id, reduce is minus the rule id, accept is 0; falsy values are skipped
Flat(e) == CASE e.k \in {"shift", "goto"} -> e.n
             [] e.k = "reduce" -> - e.n
             [] OTHER -> 0

InFlat(e) == e.k \in {"shift", "reduce", "accept"} \/ (e.k = "goto" /\ e.n # 0)

\* the action the driver takes on a table entry: solar.ts needs an array with
\* a truthy first element, the emitted lib driver reads the flat number
Decode(im, e) ==
  IF im = "ts"
  THEN IF e.k \in {"shift", "reduce", "accept"} THEN e ELSE Undefined
  ELSE IF ~ InFlat(e) THEN Undefined
       ELSE IF Flat(e) > 0 THEN Shift(Flat(e))
       ELSE IF Flat(e) < 0 THEN Reduce(- Flat(e))
       ELSE Accept

\* parseTable[state]?.[symbol]
Lookup(tbl, state, sym) ==
  IF state >= 0 /\ state < Len(tbl) THEN Entry(tbl[state + 1], sym) ELSE Undefined

\* the goto read from the row of state 0 instead of the uncovered state
GotoStateFromStart(im, tbl, state, lhs) ==
  LET e == Lookup(tbl, 0, lhs)
  IN IF e.k = "goto" /\ (im = "ts" \/ InFlat(e)) THEN e.n ELSE UndefState

\* the state pushed after a reduce: parseTable[stk.at(-2)][stk.at(-1)]
GotoState(im, tbl, state, lhs) ==
  LET e == Lookup(tbl, state, lhs)
  IN IF e.k = "goto" /\ (im = "ts" \/ InFlat(e)) THEN e.n ELSE UndefState

----------------------------------------------------------------------------
(* The grammars the generator is run on *)

Q == "\""

\* the template '["op",1,3]'
OpTpl(op) == <<"[", Q, op, Q, ",", "1", ",", "3", "]">>

Assocs == {"left", "right", "nonassoc"}

\* E -> NUMBER | E + E | E * E with one alternative per binary operator
OpRules == <<NT("E", <<H1(<<"NUMBER">>),
                       H2(<<"E", "+", "E">>, JSString(OpTpl("+"))),
                       H2(<<"E", "*", "E">>, JSString(OpTpl("*")))>>)>>

\* every operators table over '+' and '*': one row, two rows in either order,
\* one operator only, none
OpTables ==
  {<<<<a, "+", "*">>>> : a \in Assocs} \cup
  {<<<<a, "+">>, <<b, "*">>>> : a \in Assocs, b \in Assocs} \cup
  {<<<<b, "*">>, <<a, "+">>>> : a \in Assocs, b \in Assocs} \cup
  {<<<<a, "+">>>> : a \in Assocs} \cup {<<>>}

OpGrammars == {Grammar("sexp", "grammar", OpRules, ops, "") : ops \in OpTables}

\* scenario A, the calculator with parentheses
CalcGrammar ==
  Grammar("sexp", "grammar",
          <<NT("Expression",
               <<H1(<<"NUMBER">>),
                 H2(<<"Expression", "+", "Expression">>, JSString(OpTpl("+"))),
                 H2(<<"Expression", "*", "Expression">>, JSString(OpTpl("*"))),
                 H2(<<"(", "Expression", ")">>, JSString(<<"2">>))>>)>>,
          <<<<"left", "+">>, <<"left", "*">>>>, "Expression")

\* scenario B, right associativity
PowGrammar ==
  Grammar("sexp", "grammar",
          <<NT("E", <<H1(<<"NUMBER">>),
                      H2(<<"E", "^", "E">>, JSString(OpTpl("^")))>>)>>,
          <<<<"right", "^">>>>, "")

\* scenario C, a list built by an empty alternative and a spread
ListGrammar ==
  Grammar("sexp", "grammar",
          <<NT("List",
               <<H2(<<"">>, JSString(<<"[", "]">>)),
                 H2(<<"List", "ITEM">>,
                    JSString(<<"[", ".", ".", ".", "1", ",", " ", "2", "]">>))>>)>>,
          <<>>, "List")

\* a list whose empty alternative has no action, or the template '0'
EpsGrammars ==
  {Grammar("sexp", "grammar",
           <<NT("List",
                <<h, H2(<<"List", "ITEM">>,
                        JSString(<<"[", ".", ".", ".", "1", ",", "2", "]">>))>>)>>,
           <<>>, "List") : h \in {H1(<<"">>), H2(<<"">>, JSString(<<"0">>))}}

\* scenario D, a non-associative comparison
EqGrammar ==
  Grammar("sexp", "grammar",
          <<NT("E", <<H1(<<"NUMBER">>),
                      H2(<<"E", "==", "E">>,
                         JSString(<<"[", Q, "=", "=", Q, ",", "1", ",", "3", "]">>))>>)>>,
          <<<<"nonassoc", "==">>>>, "E")

\* the same binary alternative under two nonterminals: the state after
\* E op E holds a shift on op and two completed items
TwoRedGrammars ==
  {Grammar("sexp", "grammar",
           <<NT("S", <<H1(<<"E">>)>>),
             NT("E", <<H2(<<"E", "+", "E">>, JSString(OpTpl("+"))),
                       H1(<<"NUMBER">>),
                       H1(<<"F">>)>>),
             NT("F", <<H2(<<"E", "+", "E">>, JSString(OpTpl("+")))>>)>>,
           <<<<a, "+">>>>, "S") : a \in Assocs}

\* a state whose only terminal is cleared by nonassoc
CmpGrammar ==
  Grammar("sexp", "grammar",
          <<NT("S", <<H1(<<"E", "==">>)>>),
            NT("E", <<H1(<<"E", "==", "E">>), H1(<<"NUMBER">>)>>)>>,
          <<<<"nonassoc", "==">>>>, "S")

\* scenario E, S -> A | B with A -> x and B -> x, the competing rules
\* declared in either order
RRGrammars ==
  {Grammar("sexp", "grammar",
           <<NT("S", <<H1(<<"A">>), H1(<<"B">>)>>),
             NT(o[1], <<H1(<<"x">>)>>), NT(o[2], <<H1(<<"x">>)>>)>>,
           <<>>, "S") : o \in {<<"A", "B">>, <<"B", "A">>}}

\* competing empty rules
RREmptyGrammar ==
  Grammar("sexp", "grammar",
          <<NT("S", <<H1(<<"A", "x">>), H1(<<"B", "x">>)>>),
            NT("A", <<H1(<<"">>)>>), NT("B", <<H1(<<"">>)>>)>>,
          <<>>, "S")

\* competing single-nonterminal pass-through rules
RRPassGrammar ==
  Grammar("sexp", "grammar",
          <<NT("S", <<H1(<<"A">>), H1(<<"B">>)>>),
            NT("A", <<H1(<<"C">>)>>), NT("B", <<H1(<<"C">>)>>),
            NT("C", <<H1(<<"x">>)>>)>>,
          <<>>, "S")

\* competing rules that carry a precedence, on an operator lookahead
RRPrecGrammar ==
  Grammar("sexp", "grammar",
          <<NT("S", <<H1(<<"A", "+">>), H1(<<"B", "+">>)>>),
            NT("A", <<H1(<<"+">>)>>), NT("B", <<H1(<<"+">>)>>)>>,
          <<<<"left", "+">>>>, "S")

\* README, Basic Structure and Style 1: no mode field, integer actions
NoModeGrammar ==
  Grammar("", "grammar",
          <<NT("E", <<H2(<<"NUMBER">>, JSNumber(1)),
                      H2(<<"(", "E", ")">>, JSNumber(2))>>)>>,
          <<>>, "E")

\* integer actions, mode given
IntGrammar ==
  Grammar("sexp", "grammar",
          <<NT("E", <<H2(<<"NUMBER">>, JSNumber(1)),
                      H2(<<"(", "E", ")">>, JSNumber(2))>>)>>,
          <<>>, "E")

\* a jison grammar: a bnf map with a bare string alternative and an action
\* '$$ = [$E, $3];'
BnfGrammar ==
  Grammar("", "bnf",
          <<NT("E", <<H0(<<"NUMBER">>),
                      H2(<<"E", "+", "NUMBER">>,
                         JSString(<<"$", "$", " ", "=", " ", "[", "$", "E", ",", " ",
                                    "$", "3", "]", ";">>))>>)>>,
          <<<<"left", "+">>>>, "E")

\* README, Named Symbol References: 'Var[name] = Expr[value]' with the action
\* 'return assign($name, $value)'
AliasGrammar ==
  Grammar("", "bnf",
          <<NT("Rule",
               <<[arr |-> TRUE, len |-> 2,
                  pat |-> <<Tok("Var", "name"), Tok("=", ""), Tok("Expr", "value")>>,
                  h1 |-> JSString(<<"r", "e", "t", "u", "r", "n", " ",
                                    "a", "s", "s", "i", "g", "n", "(",
                                    "$", "n", "a", "m", "e", ",", " ",
                                    "$", "v", "a", "l", "u", "e", ")">>),
                  h2 |-> JSUndefined]>>)>>,
          <<>>, "Rule")

\* an alternative that starts with the error token
ErrorGrammar ==
  Grammar("sexp", "grammar",
          <<NT("S", <<H1(<<"NUMBER", ";">>), H1(<<"error", ";">>)>>)>>,
          <<>>, "S")

\* grammars without productions (an empty map, a nonterminal without
\* alternatives) and grammars whose `start` names no nonterminal
BadGrammars ==
  {Grammar(md, key, map, <<>>, "") :
     md \in {"", "sexp"}, key \in {"grammar", "bnf"},
     map \in {<<>>, <<NT("E", <<>>)>>}} \cup
  {Grammar(md, key, <<NT("E", <<H0(<<"NUMBER">>)>>)>>, <<>>, "X") :
     md \in {"", "sexp"}, key \in {"grammar", "bnf"}}

\* S -> A B; A -> a | ''; B -> b A | '' with start S, the nonterminals in
\* every order of the map and the alternatives of A and of B in either order
PermGrammars ==
  LET alts(x, y, swap) == IF swap THEN <<y, x>> ELSE <<x, y>>
      nt(n, sa, sb) ==
        CASE n = 1 -> NT("S", <<H1(<<"A", "B">>)>>)
          [] n = 2 -> NT("A", alts(H1(<<"a">>), H1(<<"">>), sa))
          [] n = 3 -> NT("B", alts(H1(<<"b", "A">>), H1(<<"">>), sb))
      orders == {o \in [1..3 -> 1..3] : \A i, j \in 1..3 : o[i] = o[j] => i = j}
  IN {Grammar("sexp", "grammar", [i \in 1..3 |-> nt(o[i], sa, sb)], <<>>, "S") :
        o \in orders, sa \in BOOLEAN, sb \in BOOLEAN}

\* grammars at the edges of the table construction: the unit cycle
\* S -> A | x; A -> S, plain and with A -> S carrying the precedence of an
\* operator row that lists $end; T -> S x; S -> S A | ''; A -> '' with the
\* empty alternative of A carrying the precedence of the left operator x; and
\* S -> S + B | a; B -> b with the nonterminal B named in an operator row above
\* '+', B declared after or before S
EdgeGrammars ==
  LET cycle(h, ops) ==
        Grammar("sexp", "grammar",
                <<NT("S", <<H1(<<"A">>), H1(<<"x">>)>>), NT("A", <<h>>)>>,
                ops, "S")
      one == JSString(<<"1">>)
  IN {cycle(H1(<<"S">>), <<>>)} \cup
     {cycle(H3(<<"S">>, one, JSOptions("$end")), <<<<a, "$end">>>>) :
        a \in Assocs} \cup
     {Grammar("sexp", "grammar",
              <<NT("T", <<H1(<<"S", "x">>)>>),
                NT("S", <<H2(<<"S", "A">>, one), H2(<<"">>, JSString(<<"[", "]">>))>>),
                NT("A", <<H3(<<"">>, JSString(<<"[", "]">>), JSOptions("x"))>>)>>,
              <<<<"left", "x">>>>, "T")} \cup
     {Grammar("sexp", "grammar",
              [i \in 1..2 |->
                 IF o[i] = "S"
                 THEN NT("S", <<H1(<<"S", "+", "B">>), H1(<<"a">>)>>)
                 ELSE NT("B", <<H1(<<"b">>)>>)],
              <<<<"left", "+">>, <<"right", "B">>>>, "S") :
        o \in {<<"S", "B">>, <<"B", "S">>}}

\* the remaining combinations of `mode` and the two maps
ModeGrammars ==
  {Grammar(md, key, IF key = "" THEN <<>> ELSE <<NT("E", <<H0(<<"NUMBER">>)>>)>>,
           <<>>, "") :
     md \in {"", "sexp", "jison"}, key \in {"", "grammar", "bnf"}}

Grammars ==
  OpGrammars \cup TwoRedGrammars \cup RRGrammars \cup ModeGrammars \cup
  EpsGrammars \cup BadGrammars \cup PermGrammars \cup EdgeGrammars \cup
  {CalcGrammar, PowGrammar, ListGrammar, EqGrammar, CmpGrammar, RREmptyGrammar,
   RRPassGrammar, RRPrecGrammar, NoModeGrammar, IntGrammar, BnfGrammar,
   AliasGrammar, ErrorGrammar}

----------------------------------------------------------------------------
(* The generator: new Generator(grammar) *)

Init ==
  /\ impl \in {"ts", "lib"}
  /\ grammar \in Grammars
  /\ pc = "new"
  /\ error = ""
  /\ mode = ""
  /\ operators = <<>>
  /\ symbolIds = <<>>
  /\ typeNames = <<>>
  /\ rules = <<>>
  /\ ruleData = <<>>
  /\ actionGroups = <<>>
  /\ start = ""
  /\ nullable = <<>>
  /\ firsts = <<>>
  /\ follows = <<>>
  /\ states = <<>>
  /\ marked = 0
  /\ parseTable = <<>>
  /\ defaultActions = <<>>
  /\ conflicts = 0
  /\ conflictDetails = {}
  /\ conflictLog = {}
  /\ stk = <<>>
  /\ val = <<>>
  /\ loc = <<>>
  /\ symbol = NoSymbol
  /\ lexed = <<>>
  /\ shifted = <<>>
  /\ lastReduce = <<>>
  /\ result = Undef

\* the mode the constructor detects, "" when it throws
detectMode(im, g) ==
  IF im = "ts"
  THEN IF g.mode = "sexp" THEN "sexp"
       ELSE IF g.key = "bnf" THEN "jison"
       ELSE ""
  ELSE IF g.key = "bnf" THEN "jison" ELSE "sexp"

\* constructor up to the mode detection
Construct ==
  /\ pc = "new"
  /\ mode' = detectMode(impl, grammar)
  /\ IF mode' = ""
     THEN pc' = "threw" /\ error' = "unknown grammar format"
     ELSE pc' = "processGrammar" /\ error' = error
  /\ UNCHANGED <<impl, grammar, operators, symbolIds, typeNames, rules,
                 ruleData, actionGroups, start, nullable, firsts, follows,
                 states, marked, parseTable, defaultActions, conflicts,
                 conflictDetails, conflictLog>>
  /\ UNCHANGED runVars

\* processGrammar: _processOperators, _buildRules, _augmentGrammar
processGrammar ==
  /\ pc = "processGrammar"
  /\ LET ops == _processOperators(grammar.operators)
         b == _buildRules(impl, mode, ops, grammar.map)
         err == IF b.err # "" THEN b.err ELSE augmentError(grammar, b.rules)
         st == startOf(grammar, b.rules)
         names == [i \in 1..Len(grammar.map) |-> grammar.map[i].name]
         tset == Range(names) \cup {"$accept"}
     IN /\ operators' = ops
        /\ symbolIds' = [x \in Range(Reserved) \cup Range(b.order) |-> IdIn(b.order, x)]
        /\ ruleData' = b.table
        /\ actionGroups' = b.groups
        /\ IF err # ""
           THEN /\ pc' = "threw"
                /\ error' = err
                /\ rules' = b.rules
                /\ typeNames' = names
                /\ start' = IF b.rules = <<>> THEN "" ELSE st
                /\ nullable' = [t \in Range(names) |-> FALSE]
                /\ firsts' = [t \in Range(names) |-> {}]
                /\ follows' = [t \in Range(names) |-> {}]
           ELSE /\ pc' = "buildLRAutomaton"
                /\ error' = error
                /\ rules' = Append(b.rules, acceptRule(st))
                /\ typeNames' = Append(names, "$accept")
                /\ start' = st
                /\ nullable' = [t \in tset |-> FALSE]
                /\ firsts' = [t \in tset |-> {}]
                /\ follows' = [t \in tset |-> IF t = st THEN {"$end"} ELSE {}]
  /\ UNCHANGED <<impl, grammar, mode, states, marked, parseTable,
                 defaultActions, conflicts, conflictDetails, conflictLog>>
  /\ UNCHANGED runVars

Types == Range(typeNames)

\* buildLRAutomaton up to the worklist loop, and one iteration of the loop;
\* the iteration that empties the worklist stores this.states
buildLRAutomaton ==
  /\ pc = "buildLRAutomaton"
  /\ states' = <<firstState(rules, Types)>>
  /\ marked' = 0
  /\ pc' = "discover"
  /\ UNCHANGED <<impl, grammar, error, mode, operators, symbolIds, typeNames,
                 rules, ruleData, actionGroups, start, nullable, firsts,
                 follows, parseTable, defaultActions, conflicts, conflictDetails,
                 conflictLog>>
  /\ UNCHANGED runVars

discoverStates ==
  /\ pc = "discover"
  /\ marked < Len(states)
  /\ states' = insertAll(rules, Types, states, marked + 1,
                         symbolOrder(rules, states[marked + 1].items, <<>>))
  /\ marked' = marked + 1
  /\ pc' = IF marked' < Len(states') THEN "discover" ELSE "nullable"
  /\ UNCHANGED <<impl, grammar, error, mode, operators, symbolIds, typeNames,
                 rules, ruleData, actionGroups, start, nullable, firsts,
                 follows, parseTable, defaultActions, conflicts, conflictDetails,
                 conflictLog>>
  /\ UNCHANGED runVars

\* one pass of the while loop of _computeNullableSets
_computeNullableSets ==
  /\ pc = "nullable"
  /\ rules' = nullableRules(rules, nullable)
  /\ nullable' = nullableTypes(rules', nullable)
  /\ pc' = IF rules' # rules \/ nullable' # nullable THEN "nullable" ELSE "first"
  /\ UNCHANGED <<impl, grammar, error, mode, operators, symbolIds, typeNames,
                 ruleData, actionGroups, start, firsts, follows, states, marked,
                 parseTable, defaultActions, conflicts, conflictDetails,
                 conflictLog>>
  /\ UNCHANGED runVars

\* one pass of the while loop of _computeFirstSets
_computeFirstSets ==
  /\ pc = "first"
  /\ rules' = firstRules(rules, nullable, firsts)
  /\ firsts' = firstTypes(rules', firsts)
  /\ pc' = IF firstChanged(rules, firsts, rules', firsts') THEN "first" ELSE "follow"
  /\ UNCHANGED <<impl, grammar, error, mode, operators, symbolIds, typeNames,
                 ruleData, actionGroups, start, nullable, follows, states, marked,
                 parseTable, defaultActions, conflicts, conflictDetails,
                 conflictLog>>
  /\ UNCHANGED runVars

\* one pass of the while loop of _computeFollowSets; the pass that changes
\* nothing is followed by _assignItemLookaheads
_computeFollowSets ==
  /\ pc = "follow"
  /\ follows' = followPass(rules, nullable, firsts, follows, 1)
  /\ IF follows' # follows
     THEN pc' = "follow" /\ states' = states
     ELSE pc' = "buildParseTable" /\
          states' = _assignItemLookaheads(rules, follows', states)
  /\ UNCHANGED <<impl, grammar, error, mode, operators, symbolIds, typeNames,
                 rules, ruleData, actionGroups, start, nullable, firsts, marked,
                 parseTable, defaultActions, conflicts, conflictDetails,
                 conflictLog>>
  /\ UNCHANGED runVars

\* one iteration of the state loop of buildParseTable; after the last row
\* solar.ts computes the default actions
buildParseTable ==
  /\ pc = "buildParseTable"
  /\ Len(parseTable) < Len(states)
  /\ LET k == Len(parseTable) + 1
         b == buildRow(impl, rules, symbolIds, operators, Types, states[k],
                       k - 1, conflicts, conflictDetails, conflictLog)
         tbl == Append(parseTable, b.row)
         last == k = Len(states)
     IN /\ parseTable' = tbl
        /\ conflicts' = b.conflicts
        /\ conflictDetails' = b.details
        /\ conflictLog' = b.log
        /\ IF ~ last
           THEN UNCHANGED <<pc, error, defaultActions>>
           ELSE IF impl = "ts" /\ defaultThrows(tbl)
           THEN pc' = "threw" /\ error' = "TypeError" /\ UNCHANGED defaultActions
           ELSE /\ pc' = "ready"
                /\ error' = error
                /\ defaultActions' = IF impl = "ts" THEN _computeDefaultActions(tbl)
                                     ELSE defaultActions
  /\ UNCHANGED <<impl, grammar, mode, operators, symbolIds, typeNames, rules,
                 ruleData, actionGroups, start, nullable, firsts, follows,
                 states, marked>>
  /\ UNCHANGED runVars

----------------------------------------------------------------------------
(* The driver: parse(input) *)

genAll == <<impl, grammar, mode, operators, symbolIds, typeNames, rules,
            ruleData, actionGroups, start, nullable, firsts, follows, states,
            marked, parseTable, defaultActions, conflicts, conflictDetails,
            conflictLog>>

\* parse() up to the loop: stk = [0], val = [null], loc = [lexer.yylloc]
parseStart ==
  /\ pc = "ready"
  /\ pc' = "parse"
  /\ stk' = <<0>>
  /\ val' = <<Null>>
  /\ loc' = <<yyllocOf(<<>>)>>
  /\ symbol' = NoSymbol
  /\ lexed' = <<>>
  /\ shifted' = <<>>
  /\ lastReduce' = <<>>
  /\ result' = Undef
  /\ UNCHANGED error
  /\ UNCHANGED genAll

\* does the top state have a default action (solar.ts only)
hasDefault == impl = "ts" /\ Last(stk) \in DOMAIN defaultActions

\* is lexer.lex() called in this iteration
needsLex == ~ hasDefault /\ symbol = NoSymbol

\* the tokens this iteration can see: the pending one, or what lex() returns;
\* after MaxInputLen tokens the input is at its end
Lexable ==
  IF ~ needsLex THEN {"$pending"}
  ELSE IF Len(lexed) >= MaxInputLen THEN {"$eof"}
  ELSE LexerTokens(symbolIds, Types)

symbolAfter(tok) == IF tok = "$pending" THEN symbol ELSE lex(symbolIds, tok)

lexedAfter(tok) == IF tok \in {"$pending", "$eof"} THEN lexed ELSE Append(lexed, tok)

\* the action of this iteration
actionFor(tok) ==
  IF hasDefault THEN defaultActions[Last(stk)]
  ELSE Decode(impl, Lookup(parseTable, Last(stk), symbolAfter(tok)))

\* a shift without loc.push(lexer.yylloc)
parseShiftNoLoc ==
  /\ pc = "parse"
  /\ Len(stk) + 2 <= MaxStackLen
  /\ \E tok \in Lexable :
       LET a == actionFor(tok)
       IN /\ a.k = "shift"
          /\ stk' = stk \o <<symbolAfter(tok), a.n>>
          /\ val' = Append(val, Str(yytextOf(lexedAfter(tok))))
          /\ loc' = loc
          /\ shifted' = Append(shifted, symbolAfter(tok))
          /\ lexed' = lexedAfter(tok)
          /\ symbol' = NoSymbol
  /\ UNCHANGED <<pc, error, lastReduce, result>>
  /\ UNCHANGED genAll

\* case 1: shift
parseShift ==
  /\ pc = "parse"
  /\ Len(stk) + 2 <= MaxStackLen
  /\ \E tok \in Lexable :
       LET a == actionFor(tok)
       IN /\ a.k = "shift"
          /\ stk' = stk \o <<symbolAfter(tok), a.n>>
          /\ val' = Append(val, Str(yytextOf(lexedAfter(tok))))
          /\ loc' = Append(loc, yyllocOf(lexedAfter(tok)))
          /\ shifted' = Append(shifted, symbolAfter(tok))
          /\ lexed' = lexedAfter(tok)
          /\ symbol' = NoSymbol
  /\ UNCHANGED <<pc, error, lastReduce, result>>
  /\ UNCHANGED genAll

\* case 2: reduce
parseReduce ==
  /\ pc = "parse"
  /\ \E tok \in Lexable :
       LET a == actionFor(tok)
           len == ruleData[a.n + 1][2]
           r == performAction(impl, actionGroups, a.n, val)
           yyval == IF r[1] = "assigned" THEN r[2]
                    ELSE IF r \in {Null, Undef} THEN At(val, Len(val) - len)
                    ELSE r
           locFirst == loc[Len(loc) - (IF len = 0 THEN 1 ELSE len) + 1]
           yyloc == [first |-> locFirst.first, last |-> Last(loc).last]
           base == DropLast(stk, 2 * len)
           lhs == ruleData[a.n + 1][1]
       IN /\ a.k = "reduce"
          /\ Len(stk) - 2 * len + 2 <= MaxStackLen
          /\ lexed' = lexedAfter(tok)
          /\ symbol' = IF hasDefault THEN symbol ELSE symbolAfter(tok)
          /\ IF r = Thrown
             THEN /\ pc' = "threw"
                  /\ error' = "action threw"
                  /\ UNCHANGED <<stk, val, loc, lastReduce>>
             ELSE /\ stk' = base \o <<lhs, GotoState(impl, parseTable, Last(base), lhs)>>
                  /\ val' = Append(DropLast(val, len), yyval)
                  /\ loc' = Append(DropLast(loc, len), yyloc)
                  /\ lastReduce' = <<a.n, yyval, Len(stk)>>
                  /\ UNCHANGED <<pc, error>>
  /\ UNCHANGED <<shifted, result>>
  /\ UNCHANGED genAll

\* case 3: accept
parseAccept ==
  /\ pc = "parse"
  /\ \E tok \in Lexable :
       LET a == actionFor(tok)
       IN /\ a.k = "accept"
          /\ lexed' = lexedAfter(tok)
          /\ symbol' = symbolAfter(tok)
          /\ result' = Last(val)
          /\ pc' = "accepted"
  /\ UNCHANGED <<error, stk, val, loc, shifted, lastReduce>>
  /\ UNCHANGED genAll

\* no usable entry: the parseError hook is called; it throws (the default
\* hook, or a hook of the caller) or returns (a hook of the caller), and
\* after a return the driver throws new Error(errStr) itself
parseFail ==
  /\ pc = "parse"
  /\ \E tok \in Lexable : \E hook \in {"throws", "returns"} :
       LET a == actionFor(tok)
       IN /\ a.k \notin {"shift", "reduce", "accept"}
          /\ lexed' = lexedAfter(tok)
          /\ symbol' = symbolAfter(tok)
          /\ error' = IF hook = "throws" THEN "parseError threw" ELSE "parse error"
          /\ pc' = "parseError"
  /\ UNCHANGED <<stk, val, loc, shifted, lastReduce, result>>
  /\ UNCHANGED genAll

Next ==
  \/ Construct
  \/ processGrammar
  \/ buildLRAutomaton
  \/ discoverStates
  \/ _computeNullableSets
  \/ _computeFirstSets
  \/ _computeFollowSets
  \/ buildParseTable
  \/ parseStart
  \/ parseShift
  \/ parseReduce
  \/ parseAccept
  \/ parseFail

Spec == Init /\ [][Next]_vars

\* the generator run on the grammars at the edges of the table construction,
\* and parse() as the loop it is: while an iteration of the loop can be
\* taken, one is taken
LiveInit == Init /\ grammar \in EdgeGrammars

LiveSpec ==
  LiveInit /\ [][Next]_vars /\
  WF_vars(parseShift \/ parseReduce \/ parseAccept \/ parseFail)

----------------------------------------------------------------------------
(* Properties *)

\* C1: for E -> NUMBER | E op E with an operators table, parse() of
\* a op1 b op2 c is accepted and returns [op1, a, [op2, b, c]] when op2 is on a
\* higher level than op1 or both are on one right-associative level, and
\* [op2, [op1, a, b], c] when op1 is higher or both are on one left-associative
\* level; the parse fails on no token of such an input
C1_PrecedenceGrouping ==
  LET num(k) == Str(<<Digits[k + 2]>>)
      RightGrouped(o1, o2) ==
        Arr(<<Str(<<o1>>), num(1), Arr(<<Str(<<o2>>), num(2), num(3)>>)>>)
      LeftGrouped(o1, o2) ==
        Arr(<<Str(<<o2>>), Arr(<<Str(<<o1>>), num(1), num(2)>>), num(3)>>)
      level(o) == operators[o].precedence
      shiftWins(o1, o2) ==
        level(o2) > level(o1) \/
        (level(o1) = level(o2) /\ operators[o2].assoc = "right")
      reduceWins(o1, o2) ==
        level(o1) > level(o2) \/
        (level(o1) = level(o2) /\ operators[o2].assoc = "left")
  IN (/\ grammar \in OpGrammars \cup {CalcGrammar, PowGrammar}
      /\ pc \in {"accepted", "parseError", "threw"}
      /\ lexed # <<>>) =>
     \A o1 \in DOMAIN operators : \A o2 \in DOMAIN operators :
       LET inp == <<"NUMBER", o1, "NUMBER", o2, "NUMBER">>
       IN ((shiftWins(o1, o2) \/ reduceWins(o1, o2)) /\ IsPrefix(lexed, inp)) =>
            /\ pc # "threw"
            /\ pc = "parseError" => (symbol = EOF /\ lexed # inp)
            /\ (pc = "accepted" /\ lexed = inp) =>
                 result = IF shiftWins(o1, o2) THEN RightGrouped(o1, o2)
                          ELSE LeftGrouped(o1, o2)

\* scenario A is parsed: 2 + 3 * 4 gives ["+", "2", ["*", "3", "4"]]
C1_Witness ==
  /\ pc = "accepted"
  /\ grammar = CalcGrammar
  /\ lexed = <<"NUMBER", "+", "NUMBER", "*", "NUMBER">>
  /\ result = Arr(<<Str(<<"+">>), Str(<<"2">>),
                    Arr(<<Str(<<"*">>), Str(<<"3">>), Str(<<"4">>)>>)>>)

\* the finished entry of the k-th state (id k - 1) at terminal t
Cell(k, t) == Entry(parseTable[k], symbolIds[t])

\* the k-th state has a transition on the terminal t
HasShift(k, t) ==
  t \in DOMAIN states[k].transitions /\ t \notin Types /\ t \in DOMAIN symbolIds

\* the rule of the j-th completed item of the k-th state
Completed(k, j) == RuleById(rules, states[k].reductions[j][1])

\* the row of the k-th state is built, the state has a shift on the operator t
\* and its j-th completed item has a rule with a precedence and t as lookahead
PrecedenceCase(k, j, t) ==
  /\ k <= Len(parseTable)
  /\ HasShift(k, t)
  /\ t \in states[k].lookaheads[j]
  /\ Completed(k, j).precedence > 0
  /\ t \in DOMAIN operators

\* the four outcomes of the precedence comparison, none of them counted
PrecedenceOutcome(k, j, t) ==
  LET r == Completed(k, j)
      lvl == operators[t].precedence
      assoc == operators[t].assoc
      shift == Shift(states[k].transitions[t])
  IN /\ r.precedence < lvl => Cell(k, t) = shift
     /\ r.precedence > lvl => Cell(k, t) = Reduce(r.id)
     /\ (r.precedence = lvl /\ assoc = "left") => Cell(k, t) = Reduce(r.id)
     /\ (r.precedence = lvl /\ assoc = "right") => Cell(k, t) = shift
     /\ (r.precedence # lvl \/ assoc \in {"left", "right"}) =>
          <<k - 1, t, r.id>> \notin conflictLog

\* C2 as stated: whenever a state has a shift on operator t and a completed
\* item of rule r with precedence > 0 and t in its lookaheads, the final entry
\* is the shift if r.precedence < level(t), the reduce of r if it is greater,
\* at equal levels the reduce for 'left' and the shift for 'right', and the
\* conflict counter is not incremented
C2_AsStated ==
  \A k \in 1..Len(parseTable) : \A j \in 1..Len(states[k].reductions) :
    \A t \in states[k].lookaheads[j] :
      PrecedenceCase(k, j, t) => PrecedenceOutcome(k, j, t)

\* C2, amended: the same, when r is the only completed item of the state that
\* has t in its lookaheads; the counter counts exactly the recorded conflicts
C2_PrecedenceResolution ==
  /\ conflicts = Cardinality(conflictLog)
  /\ \A k \in 1..Len(parseTable) : \A j \in 1..Len(states[k].reductions) :
       \A t \in states[k].lookaheads[j] :
         (/\ PrecedenceCase(k, j, t)
          /\ \A i \in 1..Len(states[k].reductions) :
               i # j => t \notin states[k].lookaheads[i])
         => PrecedenceOutcome(k, j, t)

\* the calculator's table is finished: after E * E the lookahead '+' reduces,
\* after E + E the lookahead '*' shifts, and nothing was counted
C2_Witness ==
  /\ pc = "ready"
  /\ grammar = CalcGrammar
  /\ conflicts = 0
  /\ \E k \in 1..Len(parseTable) : \E j \in 1..Len(states[k].reductions) :
       /\ PrecedenceCase(k, j, "+")
       /\ Completed(k, j).symbols = <<"Expression", "*", "Expression">>
       /\ Cell(k, "+") = Reduce(Completed(k, j).id)
  /\ \E k \in 1..Len(parseTable) : \E j \in 1..Len(states[k].reductions) :
       /\ PrecedenceCase(k, j, "*")
       /\ Completed(k, j).symbols = <<"Expression", "+", "Expression">>
       /\ Cell(k, "*").k = "shift"

\* the k-th state has the accept action on t
HasAccept(k, t) ==
  t = "$end" /\ \E i \in 1..Len(states[k].items) :
                  nextSymbol(rules, states[k].items[i]) = "$end"

\* the ids of the rules whose completed items in the k-th state have the
\* terminal t in their lookaheads
Competing(k, t) ==
  {Completed(k, j).id : j \in {i \in 1..Len(states[k].reductions) :
                                 t \in states[k].lookaheads[i]}}

\* C3 as stated: after buildParseTable, when two or more completed items of
\* distinct rules in one state have the terminal t in their lookaheads and the
\* state has no shift or accept on t, the entry at (state, t) is the reduce of
\* the lowest rule id, whatever the order of the items in the reduction set
C3_AsStated ==
  \A k \in 1..Len(parseTable) : \A t \in DOMAIN symbolIds :
    (/\ Cardinality(Competing(k, t)) >= 2
     /\ ~ HasShift(k, t)
     /\ ~ HasAccept(k, t))
    => \E r1 \in Competing(k, t) :
         /\ \A r2 \in Competing(k, t) : r1 <= r2
         /\ Cell(k, t) = Reduce(r1)

\* C4 as stated: when a completed item of rule r conflicts with a shift on a
\* nonassoc terminal t of r's own level, the finished table has no shift, reduce
\* or accept entry at (state, t), whatever else the state reduces, and the
\* driver finds no action when t is the lookahead in that state
C4_AsStated ==
  \A k \in 1..Len(parseTable) : \A j \in 1..Len(states[k].reductions) :
    \A t \in states[k].lookaheads[j] :
      (/\ PrecedenceCase(k, j, t)
       /\ operators[t].assoc = "nonassoc"
       /\ Completed(k, j).precedence = operators[t].precedence)
      => /\ Cell(k, t).k \notin {"shift", "reduce", "accept"}
         /\ (pc = "parse" /\ Last(stk) = k - 1 /\ symbol = symbolIds[t]) =>
              actionFor("$pending").k \notin {"shift", "reduce", "accept"}

\* two or more completed items of distinct rules of the k-th state compete
\* for the terminal t, and the row of the state is built
ReduceReduce(k, t) ==
  k <= Len(parseTable) /\ t \in DOMAIN symbolIds /\ Cardinality(Competing(k, t)) >= 2

\* a 'reduce-reduce' record of lib for the k-th state and the terminal t
Recorded(k, t) ==
  \E d \in conflictDetails :
    d.state = k - 1 /\ d.lookahead = t /\ d.category = "reduce-reduce"

C6_AsStated ==
  \A k \in 1..Len(parseTable) :
    /\ \A j \in 1..Len(states[k].reductions) :
         LET r == Completed(k, j)
         IN \A t \in follows[r.type] \cap DOMAIN symbolIds :
              \/ Cell(k, t) = Reduce(r.id)
              \/ HasShift(k, t)
              \/ HasAccept(k, t)
              \/ \E i \in 1..Len(states[k].reductions) :
                   /\ Completed(k, i).id < r.id
                   /\ t \in follows[Completed(k, i).type]
                   /\ Cell(k, t) = Reduce(Completed(k, i).id)
    /\ \A t \in DOMAIN symbolIds :
         Cell(k, t).k = "reduce" =>
           \E j \in 1..Len(states[k].reductions) :
             /\ Completed(k, j).id = Cell(k, t).n
             /\ t \in follows[Completed(k, j).type]

\* the kernel of Goto(S, X) for the k-th state S: the items with X after the
\* dot, advanced by one
GotoKernel(k, x) ==
  {<<it[1], it[2] + 1>> : it \in {y \in Range(states[k].items) :
                                    nextSymbol(rules, y) = x}}

\* the LR(0) closure of a set of items, as the least fixed point
RECURSIVE LR0Closure(_)
LR0Closure(I) ==
  LET after == {nextSymbol(rules, it) : it \in I}
      more == I \cup {<<rules[i].id, 0>> :
                        i \in {n \in 1..Len(rules) : rules[n].type \in after}}
  IN IF more = I THEN I ELSE LR0Closure(more)

\* the entry e of the k-th state under the symbol x leads to Goto(S, x)
LeadsToGoto(k, x, e) ==
  /\ GotoKernel(k, x) # {}
  /\ e.n \in 0..(Len(states) - 1)
  /\ states[e.n + 1].id = e.n
  /\ Range(states[e.n + 1].items) = LR0Closure(GotoKernel(k, x))

\* C7: every shift entry [SHIFT, T] at a terminal t of a state S comes with an
\* item of S that has t after the dot, and T is the state Goto(S, t); under a
\* nonterminal key X the entry is the plain goto state Goto(S, X)
C7_ShiftsAndGotos ==
  \A k \in 1..Len(parseTable) : \A x \in DOMAIN symbolIds :
    LET e == Cell(k, x)
    IN /\ e.k = "shift" => (x \notin Types /\ LeadsToGoto(k, x, e))
       /\ (x \in Types /\ symbolIds[x] \in DOMAIN parseTable[k]) =>
            (e.k = "goto" /\ LeadsToGoto(k, x, e))

\* the calculator's table is finished: two states shift '(' into the same
\* state, and a state has a goto under Expression
C7_Witness ==
  /\ pc = "ready"
  /\ grammar = CalcGrammar
  /\ \E k1 \in 1..Len(parseTable) : \E k2 \in 1..Len(parseTable) :
       /\ k1 # k2
       /\ Cell(k1, "(").k = "shift"
       /\ Cell(k1, "(") = Cell(k2, "(")
  /\ \E k \in 1..Len(parseTable) : Cell(k, "Expression").k = "goto"

\* C8: parse() returns only through the accept action, taken on the lookahead
\* $end when every token the lexer returned has been shifted, in order; the
\* value returned is the top of the value stack, the value pushed by the last
\* reduction, which is a reduction to the start symbol
C8_AcceptOnly ==
  /\ pc # "accepted" => result = Undef
  /\ pc = "accepted" =>
       /\ symbol = EOF
       /\ Lookup(parseTable, Last(stk), symbol).k = "accept"
       /\ shifted = [i \in 1..Len(lexed) |-> lex(symbolIds, lexed[i])]
       /\ result = Last(val)
       /\ lastReduce # <<>>
       /\ RuleById(rules, lastReduce[1]).type = start
       /\ result = lastReduce[2]

\* 2 ^ 3 is accepted with the value of the reduction by E -> E ^ E
C8_Witness ==
  /\ pc = "accepted"
  /\ grammar = PowGrammar
  /\ lexed = <<"NUMBER", "^", "NUMBER">>
  /\ Len(shifted) = 3
  /\ result = Arr(<<Str(<<"^">>), Str(<<"2">>), Str(<<"3">>)>>)

\* C9 as stated: solar.ts compiles a grammar object with a `grammar` map and
\* neither `bnf` nor `mode` in sexp mode; it chooses jison exactly when a `bnf`
\* map is present, and rejects as unknown format only an object with neither map
C9_AsStated ==
  (impl = "ts" /\ pc # "new") =>
    /\ (grammar.key = "grammar" /\ grammar.mode = "") =>
         (mode = "sexp" /\ error # "unknown grammar format")
    /\ mode = "jison" <=> grammar.key = "bnf"
    /\ error = "unknown grammar format" <=> grammar.key = ""

\* C10 as stated: in sexp mode solar.ts compiles an alternative [pattern, n]
\* with an integer n to a dispatch case of its rule that returns the value at
\* position n of the right-hand side, $$[$0 - (L - n)]
C10_AsStated ==
  (impl = "ts" /\ mode = "sexp" /\ rules # <<>>) =>
    \A i \in 1..Len(rules) :
      \A a \in 1..Len(grammar.map) : \A b \in 1..Len(grammar.map[a].handles) :
        LET h == grammar.map[a].handles[b]
            L == Len(h.pat)
            offset == IF h.h1.n = L THEN <<>> ELSE IntToChars(h.h1.n - L)
            body == <<"r", "e", "t", "u", "r", "n", " ", "$", "$", "[", "$", "0">>
                    \o offset \o <<"]", ";">>
        IN (/\ rules[i].type = grammar.map[a].name
            /\ rules[i].symbols = [n \in 1..L |-> h.pat[n].name]
            /\ h.arr /\ h.len = 2 /\ h.h1.t = "number")
           => \E g \in 1..Len(actionGroups) :
                /\ rules[i].id \in Range(actionGroups[g].labels)
                /\ actionGroups[g].body = body

\* the key a pattern token goes by in an action: its alias when it carries
\* one, else its name
AliasKeys(h) ==
  [n \in 1..Len(h.pat) |-> IF h.pat[n].alias # "" THEN h.pat[n].alias
                           ELSE h.pat[n].name]

\* C11 as stated: in jison mode an alternative whose pattern carries inline
\* aliases is stored with the alias-free symbol list, and its compiled body has
\* every $alias / @alias replaced by the stack reference of the position of the
\* symbol that carried the alias ($name -> $$[$0-2], $value -> $$[$0] for
\* 'Var[name] = Expr[value]')
C11_AsStated ==
  (mode = "jison" /\ pc \notin {"new", "processGrammar", "threw"}) =>
    \A a \in 1..Len(grammar.map) : \A b \in 1..Len(grammar.map[a].handles) :
      LET h == grammar.map[a].handles[b]
      IN (h.arr /\ h.h1.t = "string" /\ \E n \in 1..Len(h.pat) : h.pat[n].alias # "")
         => \E i \in 1..Len(rules) :
              /\ rules[i].type = grammar.map[a].name
              /\ rules[i].symbols = [n \in 1..Len(h.pat) |-> h.pat[n].name]
              /\ \E g \in 1..Len(actionGroups) :
                   /\ rules[i].id \in Range(actionGroups[g].labels)
                   /\ actionGroups[g].body =
                        _generateClassAction(h.h1.s, AliasKeys(h))

\* the integers of a template in the order /-?\d+/ finds them
RECURSIVE TemplateInts(_, _)
TemplateInts(s, i) ==
  IF i > Len(s) THEN <<>>
  ELSE LET e == IntMatchEnd(s, i)
       IN IF e > 0 THEN <<IntMatchVal(s, i, e)>> \o TemplateInts(s, e + 1)
          ELSE TemplateInts(s, i + 1)

\* the value-stack references of a compiled body in order: <<"ref", k>> for
\* $[$0-k] ($[$0] is k = 0), <<"malformed">> for any other text after '$[$0'
RECURSIVE StackRefs(_, _, _)
StackRefs(open, s, i) ==
  IF i > Len(s) THEN <<>>
  ELSE IF ~ StartsAt(s, i, open) THEN StackRefs(open, s, i + 1)
  ELSE LET j == i + Len(open)
           e == IF j < Len(s) /\ s[j] = "-" /\ IsDigit(s[j + 1])
                THEN DigitsEnd(s, j + 1) ELSE 0
       IN IF j <= Len(s) /\ s[j] = "]"
          THEN <<<<"ref", 0>>>> \o StackRefs(open, s, j + 1)
          ELSE IF e > 0 /\ e < Len(s) /\ s[e + 1] = "]"
          THEN <<<<"ref", DigitsVal(s, j + 1, e)>>>> \o StackRefs(open, s, e + 2)
          ELSE <<<<"malformed">>>> \o StackRefs(open, s, j)

\* C12 as stated: in sexp mode the body compiled from a bare integer n, or
\* from a string without $n whose integers are n1..nk, references exactly the
\* stack slots $[$0 - (L - n1)], ..., $[$0 - (L - nk)] in that order, L being
\* the length the driver pops for the rule (0 for an empty alternative)
C12_AsStated ==
  (mode = "sexp" /\ pc \notin {"new", "processGrammar", "threw"}) =>
    \A i \in 1..Len(rules) :
      \A a \in 1..Len(grammar.map) : \A b \in 1..Len(grammar.map[a].handles) :
        LET h == grammar.map[a].handles[b]
            L == ruleData[rules[i].id + 1][2]
            ints == IF h.h1.t = "number" THEN <<h.h1.n>>
                    ELSE TemplateInts(h.h1.s, 1)
        IN (/\ rules[i].type = grammar.map[a].name
            /\ rules[i].symbols = [n \in 1..Len(h.pat) |-> h.pat[n].name]
            /\ h.arr /\ h.len = 2
            /\ h.h1.t = "number" \/ (h.h1.t = "string" /\ ~ hasDollar(h.h1.s)))
           => \E g \in 1..Len(actionGroups) :
                /\ rules[i].id \in Range(actionGroups[g].labels)
                /\ StackRefs(RefOpen(impl), actionGroups[g].body, 1) =
                     [k \in 1..Len(ints) |-> <<"ref", L - ints[k]>>]

\* C13 as stated: for List: [[''], ['List ITEM', '[...1,2]']] the reduction of
\* the empty alternative pushes the empty list, no action throws, and the
\* input ITEM(a) ITEM(b) ITEM(c) is accepted with the value ["a", "b", "c"]
C13_AsStated ==
  (/\ grammar \in EpsGrammars
   /\ grammar.map[1].handles[1] = H1(<<"">>)
   /\ IsPrefix(lexed, <<"ITEM", "ITEM", "ITEM">>)) =>
    /\ error # "action threw"
    /\ (lastReduce # <<>> /\ lastReduce[1] = 1) => lastReduce[2] = Arr(<<>>)
    /\ (pc = "accepted" /\ Len(lexed) = 3) =>
         result = Arr(<<Str(<<"a">>), Str(<<"b">>), Str(<<"c">>)>>)

\* the parse table is complete and _computeDefaultActions has returned
TableBuilt == pc \in {"ready", "parse", "accepted", "parseError"} \/
              (pc = "threw" /\ error = "action threw")

\* the entries of the k-th row under terminal symbols
ActionEntries(k) ==
  {parseTable[k][key] :
     key \in {c \in DOMAIN parseTable[k] :
                \E x \in DOMAIN symbolIds : symbolIds[x] = c /\ x \notin Types}}

DefaultsRecorded ==
  (impl = "ts" /\ TableBuilt) =>
    \A k \in 1..Len(parseTable) :
      /\ (k - 1) \in DOMAIN defaultActions <=>
           (Cardinality(DOMAIN parseTable[k]) = 1 /\
            \A key \in DOMAIN parseTable[k] : parseTable[k][key].k = "reduce")
      /\ (k - 1) \in DOMAIN defaultActions =>
           /\ ActionEntries(k) = {defaultActions[k - 1]}
           /\ defaultActions[k - 1].k = "reduce"

\* a step of the driver in a state with a default: the reduce by the recorded
\* rule, without a call of lexer.lex() and without touching the lookahead
DefaultStep ==
  (pc = "parse" /\ impl = "ts" /\ Last(stk) \in DOMAIN defaultActions) =>
    /\ lexed' = lexed
    /\ symbol' = symbol
    /\ shifted' = shifted
    /\ pc' \in {"parse", "threw"}
    /\ pc' = "parse" =>
         /\ lastReduce'[1] = defaultActions[Last(stk)].n
         /\ lastReduce'[3] = Len(stk)

ErrorShiftOnStack ==
  \E i \in 1..Len(stk) :
    i % 2 = 1 /\ Lookup(parseTable, stk[i], TERROR).k = "shift"

\* C15 as stated: when no table entry exists for the state and the token and
\* the parseError hook returns normally, parse() does not abort but goes on,
\* popping states until one with a shift on `error` is found
C15_AsStated ==
  ~ (pc = "parseError" /\ error = "parse error" /\ ErrorShiftOnStack)

\* the grammar object carries a map that defines no production
NoProductions ==
  /\ grammar.key # ""
  /\ \A a \in 1..Len(grammar.map) : grammar.map[a].handles = <<>>

\* the grammar has productions and its `start` names no nonterminal of the map
NoStartSymbol ==
  /\ grammar.key # ""
  /\ ~ NoProductions
  /\ grammar.start # ""
  /\ \A a \in 1..Len(grammar.map) : grammar.map[a].name # grammar.start

\* C16 as stated: the constructor throws 'no rules defined' for a grammar
\* without productions and 'no start symbol' for a grammar whose start symbol
\* is not a nonterminal of the map, in both cases before any LR state,
\* lookahead set or parse-table row exists
C16_AsStated ==
  (pc \notin {"new", "processGrammar"} /\ (NoProductions \/ NoStartSymbol)) =>
    /\ pc = "threw"
    /\ NoProductions => error = "no rules defined"
    /\ NoStartSymbol => error = "no start symbol"
    /\ states = <<>>
    /\ parseTable = <<>>
    /\ \A t \in DOMAIN follows : follows[t] = {}
    /\ \A t \in DOMAIN firsts : firsts[t] = {}

\* the kernel of the k-th state, read off its items: the items with the dot
\* past the first symbol, and the accept item at dot 0 for state 0
KernelOf(k) ==
  {it \in Range(states[k].items) : it[2] > 0 \/ (k = 1 /\ it = <<0, 0>>)}

\* C17: at every moment of buildLRAutomaton and after it no two distinct
\* states have the same kernel; state i has id i; every transition of a state
\* on a symbol leads to the one state whose kernel is the set of the state's
\* items with that symbol after the dot, advanced by one - a kernel met again
\* is answered with the existing state id
C17_KernelsDistinct ==
  /\ \A i \in 1..Len(states) : \A j \in 1..Len(states) :
       i # j => KernelOf(i) # KernelOf(j)
  /\ \A k \in 1..Len(states) :
       /\ states[k].id = k - 1
       /\ KernelOf(k) # {}
       /\ \A x \in DOMAIN states[k].transitions :
            LET t == states[k].transitions[x]
            IN /\ t \in 0..(Len(states) - 1)
               /\ KernelOf(t + 1) = GotoKernel(k, x)
  /\ pc \notin {"new", "processGrammar", "buildLRAutomaton", "discover", "threw"} =>
       \A k \in 1..Len(states) :
         \A x \in {nextSymbol(rules, it) : it \in Range(states[k].items)} \ {"", "$end"} :
           x \in DOMAIN states[k].transitions

\* the automaton of E -> NUMBER | E ^ E is finished: NUMBER leads from state 0
\* and from the state after '^' to one and the same state, and '^' leads from
\* the state after E ^ E back to the state it was first reached in
C17_Witness ==
  /\ grammar = PowGrammar
  /\ pc = "nullable"
  /\ \E k \in 2..Len(states) :
       /\ "NUMBER" \in DOMAIN states[k].transitions
       /\ states[k].transitions["NUMBER"] = states[1].transitions["NUMBER"]
  /\ \E k1 \in 1..Len(states) : \E k2 \in 1..Len(states) :
       /\ k1 # k2
       /\ "^" \in DOMAIN states[k1].transitions
       /\ "^" \in DOMAIN states[k2].transitions
       /\ states[k1].transitions["^"] = states[k2].transitions["^"]

\* NULLABLE, FIRST and FOLLOW as least fixed points over the set of rules:
\* nothing below looks at the order of the rules or of the types
RuleSet == Range(rules)

RECURSIVE LfpNullable(_)
LfpNullable(nl) ==
  LET more == [t \in DOMAIN nl |->
                 \E r \in RuleSet : r.type = t /\ _isNullableSeq(nl, r.symbols)]
  IN IF more = nl THEN nl ELSE LfpNullable(more)

RECURSIVE LfpFirst(_, _)
LfpFirst(nl, fs) ==
  LET more == [t \in DOMAIN fs |->
                 UNION {_computeFirstOfSequence(nl, fs, r.symbols) :
                          r \in {q \in RuleSet : q.type = t}}]
  IN IF more = fs THEN fs ELSE LfpFirst(nl, more)

RECURSIVE LfpFollow(_, _, _)
LfpFollow(nl, fs, fo) ==
  LET rest(r, i) == SubSeq(r.symbols, i + 1, Len(r.symbols))
      more == [t \in DOMAIN fo |->
                 fo[t] \cup
                 UNION {_computeFirstOfSequence(nl, fs, rest(ri[1], ri[2])) \cup
                        (IF _isNullableSeq(nl, rest(ri[1], ri[2]))
                         THEN fo[ri[1].type] ELSE {}) :
                          ri \in {x \in UNION {{<<r, i>> : i \in 1..Len(r.symbols)} :
                                                   r \in RuleSet} :
                                    x[1].symbols[x[2]] = t}}]
  IN IF more = fo THEN fo ELSE LfpFollow(nl, fs, more)

\* processLookaheads has run
LookaheadsDone == pc \in {"buildParseTable", "ready", "parse", "accepted", "parseError"}
                  \/ (pc = "threw" /\ error \in {"action threw", "TypeError"})

\* C18: the NULLABLE flags and the FIRST and FOLLOW sets the generator ends
\* with are the least fixed points over the set of rules and the start
\* symbol, and so the same for every order of the nonterminals in the map and
\* of the alternatives of a nonterminal
C18_OrderIndependent ==
  LookaheadsDone =>
    LET nl == LfpNullable([t \in Types |-> FALSE])
        fs == LfpFirst(nl, [t \in Types |-> {}])
        fo == LfpFollow(nl, fs, [t \in Types |-> IF t = start THEN {"$end"} ELSE {}])
    IN /\ nullable = nl
       /\ firsts = fs
       /\ follows = fo
       /\ \A i \in 1..Len(rules) :
            /\ rules[i].nullable = _isNullableSeq(nl, rules[i].symbols)
            /\ rules[i].firsts = _computeFirstOfSequence(nl, fs, rules[i].symbols)

\* the lookahead sets of S -> A B; A -> a | ''; B -> b A | '' are computed
\* for a map that lists B before A before S and the empty alternatives first
C18_Witness ==
  /\ pc = "buildParseTable"
  /\ grammar \in PermGrammars
  /\ typeNames = <<"B", "A", "S", "$accept">>
  /\ rules[1].symbols = <<"">>
  /\ rules[3].symbols = <<"">>
  /\ nullable = [t \in Types |-> t # "$accept"]
  /\ follows["A"] \cap {"b", "$end"} = {"b", "$end"}
  /\ follows["B"] = {"$end"}
  /\ firsts["S"] \cap {"a", "b"} = {"a", "b"}

\* the terminal symbols: the symbols with an id that are not types
Terminals == DOMAIN symbolIds \ Types

\* C19 as stated: after processLookaheads FIRST of an empty alternative is the
\* empty set, FIRST of a rule that starts with a terminal t contains t, and
\* every FIRST set, FOLLOW set and item lookahead set holds terminals only,
\* never the empty-string marker and never a nonterminal
C19_AsStated ==
  LookaheadsDone =>
    /\ \A i \in 1..Len(rules) :
         /\ rules[i].symbols = <<"">> => rules[i].firsts = {}
         /\ rules[i].symbols[1] \in Terminals => rules[i].symbols[1] \in rules[i].firsts
         /\ rules[i].firsts \subseteq Terminals
    /\ \A t \in Types : firsts[t] \subseteq Terminals /\ follows[t] \subseteq Terminals
    /\ \A k \in 1..Len(states) : \A j \in 1..Len(states[k].lookaheads) :
         states[k].lookaheads[j] \subseteq Terminals

\* the alternatives of the grammar map in declaration order, as
\* <<nonterminal, alias-free symbols>>
Declared ==
  Flatten([a \in 1..Len(grammar.map) |->
             [b \in 1..Len(grammar.map[a].handles) |->
                <<grammar.map[a].name,
                  [n \in 1..Len(grammar.map[a].handles[b].pat) |->
                     grammar.map[a].handles[b].pat[n].name]>>]])

\* processGrammar has returned without an error
GrammarProcessed == pc \notin {"new", "processGrammar"} /\
                    (pc = "threw" => error \in {"action threw", "TypeError"})

\* C20: the user rules have the ids 1..N in declaration order and id 0
\* belongs to the accept rule $accept -> start $end alone; the states have the
\* ids 0..M-1 with states[i].id = i; the parse table has one row per state at
\* the index of the state: the row has a key for every transition of the
\* state and the state's gotos under the nonterminal keys
C20_DenseIds ==
  /\ GrammarProcessed =>
       /\ Len(rules) = Len(Declared) + 1
       /\ \A i \in 1..Len(Declared) :
            /\ rules[i].id = i
            /\ rules[i].type = Declared[i][1]
            /\ rules[i].symbols = Declared[i][2]
            /\ ruleData[i + 1][1] = symbolIds[rules[i].type]
       /\ Last(rules).id = 0
       /\ Last(rules).type = "$accept"
       /\ Last(rules).symbols = <<start, "$end">>
       /\ Len(ruleData) = Len(rules)
  /\ \A k \in 1..Len(states) : states[k].id = k - 1
  /\ Len(parseTable) <= Len(states)
  /\ \A k \in 1..Len(parseTable) :
       \A x \in DOMAIN states[k].transitions :
         /\ symbolIds[x] \in DOMAIN parseTable[k]
         /\ x \in Types =>
              parseTable[k][symbolIds[x]] = Goto(states[k].transitions[x])
  /\ pc \in {"ready", "parse", "accepted", "parseError"} =>
       (Len(states) > 0 /\ Len(parseTable) = Len(states))

\* the calculator is generated: four user rules, the accept rule with id 0
\* behind them, and a table with a row for each of its states
C20_Witness ==
  /\ pc = "ready"
  /\ grammar = CalcGrammar
  /\ Len(rules) = 5
  /\ rules[4].id = 4
  /\ rules[4].symbols = <<"(", "Expression", ")">>
  /\ rules[5].id = 0
  /\ Len(states) > 5
  /\ Len(parseTable) = Len(states)
  /\ states[Len(states)].id = Len(states) - 1


\* the rows of states that hold the item [$accept -> start . $end]
AcceptRows ==
  {k \in 1..Len(parseTable) : Contains(states[k].items, <<0, 1>>)}

\* the completed items of state k that have $end among their lookaheads
EndReduces(k) ==
  {j \in 1..Len(states[k].reductions) : "$end" \in states[k].lookaheads[j]}

\* a completed item whose rule wins against the entry under $end by precedence
EndOverride(k) ==
  \E j \in EndReduces(k) :
     LET rule == RuleById(rules, states[k].reductions[j][1])
     IN /\ "$end" \in DOMAIN operators
        /\ rule.precedence # 0
        /\ \/ rule.precedence > operators["$end"].precedence
           \/ /\ rule.precedence = operators["$end"].precedence
              /\ operators["$end"].assoc \in {"left", "nonassoc"}

NoShiftOnEnd ==
  /\ \A k \in 1..Len(states) : "$end" \notin DOMAIN states[k].transitions
  /\ \A k \in 1..Len(parseTable) : Entry(parseTable[k], EOF).k # "shift"

NullCount ==
  Cardinality({t \in DOMAIN nullable : nullable[t]}) +
  Cardinality({i \in 1..Len(rules) : rules[i].nullable})

FirstSize ==
  Cardinality(UNION {{<<t, x>> : x \in firsts[t]} : t \in DOMAIN firsts}) +
  Cardinality(UNION {{<<i, x>> : x \in rules[i].firsts} : i \in 1..Len(rules)})

FollowSize ==
  Cardinality(UNION {{<<t, x>> : x \in follows[t]} : t \in DOMAIN follows})

\* every name that can be an element of a FIRST or FOLLOW set
SetUniverse ==
  UNION {Range(rules[i].symbols) : i \in 1..Len(rules)} \cup {"$end"}

\* every item of the grammar: a rule id and a dot position
ItemUniverse ==
  UNION {{<<rules[i].id, d>> : d \in 0..Len(rules[i].symbols)} : i \in 1..Len(rules)}

\* one pass of a loop: nothing is lost, a pass that is followed by another
\* pass has set a flag or added an element, and an iteration of the state
\* discovery moves the worklist index by one and is followed by another only
\* while unprocessed states are left
LoopStep ==
  /\ pc \in {"nullable", "first", "follow"} =>
       /\ \A t \in DOMAIN nullable : nullable[t] => nullable'[t]
       /\ \A i \in 1..Len(rules) : rules[i].nullable => rules'[i].nullable
       /\ \A t \in DOMAIN firsts : firsts[t] \subseteq firsts'[t]
       /\ \A i \in 1..Len(rules) : rules[i].firsts \subseteq rules'[i].firsts
       /\ \A t \in DOMAIN follows : follows[t] \subseteq follows'[t]
  /\ (pc = "nullable" /\ pc' = "nullable") => NullCount' > NullCount
  /\ (pc = "first" /\ pc' = "first") => FirstSize' > FirstSize
  /\ (pc = "follow" /\ pc' = "follow") => FollowSize' > FollowSize
  /\ pc = "nullable" => pc' \in {"nullable", "first"}
  /\ pc = "first" => pc' \in {"first", "follow"}
  /\ pc = "follow" => pc' \in {"follow", "buildParseTable"}
  /\ pc = "discover" =>
       /\ marked' = marked + 1
       /\ Len(states') >= Len(states)
       /\ pc' = IF marked' < Len(states') THEN "discover" ELSE "nullable"

\* the measures of the loops are bounded by the grammar: the flags by the
\* number of types and rules, the sets by the names of the grammar, and the
\* states by the sets of items, every state having a kernel of its own
LoopBounds ==
  /\ NullCount <= Cardinality(DOMAIN nullable) + Len(rules)
  /\ \A t \in DOMAIN firsts : firsts[t] \subseteq SetUniverse
  /\ \A i \in 1..Len(rules) : rules[i].firsts \subseteq SetUniverse
  /\ \A t \in DOMAIN follows : follows[t] \subseteq SetUniverse
  /\ marked <= Len(states)
  /\ \A k \in 1..Len(states) :
       /\ Range(states[k].signature) \subseteq ItemUniverse
       /\ \A m \in 1..Len(states) :
            states[m].signature = states[k].signature => m = k

\* C22: the NULLABLE, FIRST and FOLLOW loops each come to their end, and
\* from one pass to the next no nullable flag goes from true to false and no
\* FIRST or FOLLOW set loses an element; the state discovery of
\* buildLRAutomaton comes to its end as well.  Every pass that is followed by
\* another pass of the same loop has raised a measure that the grammar
\* bounds, and every iteration of the discovery has processed one more of
\* the boundedly many states
C22_LoopsTerminate == [] LoopBounds /\ [][LoopStep]_vars

\* S -> A B; A -> a | ''; B -> b A | '': the FOLLOW loop is between two
\* passes, FOLLOW(A) has grown beyond FIRST(B) and a further pass is due
C22_Witness ==
  /\ pc = "follow"
  /\ grammar \in PermGrammars
  /\ nullable["S"] /\ nullable["A"] /\ nullable["B"]
  /\ "a" \in firsts["S"] /\ "b" \in firsts["S"]
  /\ "$end" \in follows["A"]
  /\ "b" \in follows["A"]
  /\ Len(states) > 3


\* C23 as stated: for every grammar the generator accepts and every finite
\* token stream parse() comes to an end, by the accept action or by a parse
\* error (or an exception of an action); no run of reduces goes on for ever
\* without a token being consumed
C23_AsStated ==
  (pc = "parse") ~> (pc \in {"accepted", "parseError", "threw"})


\* what processGrammar leaves behind of a rule: id, left-hand side, symbols
\* and precedence (nullable and firsts belong to processLookaheads)
RuleShapes(rs) ==
  [i \in 1..Len(rs) |-> <<rs[i].id, rs[i].type, rs[i].symbols, rs[i].precedence>>]

\* what buildLRAutomaton leaves behind of a state: everything but the
\* lookaheads of its reduction items
StateShapes(sts) ==
  [k \in 1..Len(sts) |->
     <<sts[k].id, sts[k].items, sts[k].reductions, sts[k].transitions,
       sts[k].signature, sts[k].hasShifts, sts[k].hasConflicts>>]

GrammarOutputs == <<symbolIds, typeNames, RuleShapes(rules), ruleData,
                    actionGroups, operators, start, mode>>

PhaseStep ==
  /\ grammar' = grammar
  /\ pc \in {"buildLRAutomaton", "discover"} =>
       /\ GrammarOutputs' = GrammarOutputs
       /\ rules' = rules
  /\ pc \in {"nullable", "first", "follow"} =>
       /\ GrammarOutputs' = GrammarOutputs
       /\ StateShapes(states)' = StateShapes(states)
  /\ pc = "buildParseTable" =>
       /\ GrammarOutputs' = GrammarOutputs
       /\ rules' = rules
       /\ states' = states
       /\ <<nullable, firsts, follows>>' = <<nullable, firsts, follows>>

\* C24: no phase of the generator changes what an earlier phase has built:
\* buildLRAutomaton leaves the symbol ids, the rules (ids, symbols,
\* precedences) and the operator table as they are; processLookaheads leaves
\* those and the items, reductions and transitions of every state as they
\* are; buildParseTable changes nothing but the parse table, the default
\* actions and the conflict diagnostics; the grammar object is never changed
C24_PhasesKeepOutputs == [][PhaseStep]_vars

\* S -> A B; A -> a | ''; B -> b A | '' has gone through all four phases:
\* the rules carry their nullable flags and FIRST sets, the reduction items
\* their lookaheads, the table is built, and the rules still have the
\* symbols the grammar gave them
C24_Witness ==
  /\ pc = "ready"
  /\ grammar \in PermGrammars
  /\ \E i \in 1..Len(rules) : rules[i].nullable /\ rules[i].symbols = <<"">>
  /\ \E i \in 1..Len(rules) : rules[i].firsts # {}
  /\ \E k \in 1..Len(states) :
       \E j \in 1..Len(states[k].lookaheads) : states[k].lookaheads[j] # {}
  /\ Len(parseTable) = Len(states)


\* buildLRAutomaton has returned: the worklist index has reached the end of
\* the list of states
AutomatonBuilt == Len(states) > 0 /\ marked = Len(states)

\* the symbols after the dot of the items of the k-th state, without the
\* end of a rule and without $end
AfterDot(k) ==
  {nextSymbol(rules, it) : it \in Range(states[k].items)} \ {"", "$end"}

\* C25: after buildLRAutomaton the items of every state are exactly the
\* closure of its kernel, each (rule id, dot) once; its reductions are
\* exactly its items with the dot at the end; it has a transition on exactly
\* the symbols other than $end that follow a dot, each to the state whose
\* kernel is the set of the advanced items; state 0 is the closure of
\* [$accept -> . start $end], every other state is the target of a
\* transition of an earlier state and no two states share a kernel: the
\* states are the canonical LR(0) collection
C25_CanonicalCollection ==
  AutomatonBuilt =>
    /\ states[1].signature = <<<<0, 0>>>>
    /\ \A k \in 1..Len(states) :
         LET st == states[k]
         IN /\ Cardinality(Range(st.items)) = Len(st.items)
            /\ Range(st.signature) = KernelOf(k)
            /\ Range(st.items) = LR0Closure(Range(st.signature))
            /\ Cardinality(Range(st.reductions)) = Len(st.reductions)
            /\ Range(st.reductions) =
                 {it \in Range(st.items) : nextSymbol(rules, it) = ""}
            /\ DOMAIN st.transitions = AfterDot(k)
            /\ \A x \in AfterDot(k) :
                 /\ st.transitions[x] \in 0..(Len(states) - 1)
                 /\ Range(states[st.transitions[x] + 1].signature) = GotoKernel(k, x)
            /\ k > 1 => \E j \in 1..(k - 1) : \E x \in DOMAIN states[j].transitions :
                          states[j].transitions[x] = k - 1
            /\ \A m \in 1..Len(states) :
                 Range(states[m].signature) = Range(st.signature) => m = k

\* the automaton of the calculator is built: the state after '(' has the
\* kernel [Expression -> ( . Expression )] and the four items of
\* Expression beside it, and a transition on each of Expression, NUMBER and
\* '(' - the last one back to itself; the state after Expression + Expression
\* has a kernel of three items, one of them completed
C25_Witness ==
  /\ AutomatonBuilt
  /\ grammar = CalcGrammar
  /\ \E k \in 1..Len(states) :
       /\ states[k].signature = <<<<4, 1>>>>
       /\ Len(states[k].items) = 5
       /\ DOMAIN states[k].transitions = {"Expression", "NUMBER", "("}
       /\ states[k].transitions["("] = k - 1
       /\ states[k].reductions = <<>>
  /\ \E k \in 1..Len(states) :
       /\ Len(states[k].signature) = 3
       /\ states[k].reductions = <<<<2, 3>>>>


\* the reference FIRST of a sequence of symbols, terminals only: the empty
\* string marker stands for no symbol at all
RECURSIVE RefFirstOf(_, _, _)
RefFirstOf(nl, fs, syms) ==
  IF syms = <<>> THEN {}
  ELSE IF Head(syms) = "" THEN RefFirstOf(nl, fs, Tail(syms))
  ELSE IF Head(syms) \notin DOMAIN fs THEN {Head(syms)}
  ELSE fs[Head(syms)] \cup
       (IF nl[Head(syms)] THEN RefFirstOf(nl, fs, Tail(syms)) ELSE {})

RefNullableOf(nl, syms) ==
  \A i \in 1..Len(syms) : syms[i] = "" \/ (syms[i] \in DOMAIN nl /\ nl[syms[i]])

RECURSIVE RefFirst(_, _)
RefFirst(nl, fs) ==
  LET more == [t \in DOMAIN fs |->
                 UNION {RefFirstOf(nl, fs, r.symbols) : r \in {q \in RuleSet : q.type = t}}]
  IN IF more = fs THEN fs ELSE RefFirst(nl, more)

\* the occurrences B -> alpha X beta of the nonterminal X in the user rules,
\* as <<B, beta>>
Occurrences(X) ==
  UNION {{<<r.type, SubSeq(r.symbols, i + 1, Len(r.symbols))>> :
            i \in {n \in 1..Len(r.symbols) : r.symbols[n] = X}} :
         r \in {q \in RuleSet : q.id # 0}}

RECURSIVE RefFollow(_, _, _)
RefFollow(nl, fs, fo) ==
  LET more == [X \in DOMAIN fo |->
                 fo[X] \cup
                 UNION {RefFirstOf(nl, fs, o[2]) \cup
                        (IF RefNullableOf(nl, o[2]) THEN fo[o[1]] ELSE {}) :
                          o \in Occurrences(X)}]
  IN IF more = fo THEN fo ELSE RefFollow(nl, fs, more)

\* FOLLOW as the least solution of: $end in FOLLOW(start); for each rule
\* B -> alpha X beta, FIRST(beta) in FOLLOW(X), and FOLLOW(B) in FOLLOW(X) when
\* beta is nullable or empty
ReferenceFollow ==
  LET nl == LfpNullable([t \in Types |-> FALSE])
      fs == RefFirst(nl, [t \in Types |-> {}])
  IN RefFollow(nl, fs, [t \in Types |-> IF t = start THEN {"$end"} ELSE {}])

\* C26: after processLookaheads, for every state and every reduction item
\* [A -> gamma .] in it, the terminals in the lookahead set of the item are
\* exactly the terminals of the reference FOLLOW(A)
C26_LookaheadsAreFollow ==
  LookaheadsDone =>
    \A k \in 1..Len(states) :
      /\ Len(states[k].lookaheads) = Len(states[k].reductions)
      /\ \A j \in 1..Len(states[k].reductions) :
           states[k].lookaheads[j] \cap Terminals =
             ReferenceFollow[RuleById(rules, states[k].reductions[j][1]).type]

\* the lookaheads of S -> A B; A -> a | ''; B -> b A | '' are assigned: the
\* completed item [A -> a .] carries b and $end (A is followed by B, which is
\* nullable, at the end of S) next to the empty-string marker
C26_Witness ==
  /\ pc = "buildParseTable"
  /\ grammar \in PermGrammars
  /\ \E k \in 1..Len(states) : \E j \in 1..Len(states[k].reductions) :
       LET rule == RuleById(rules, states[k].reductions[j][1])
       IN /\ rule.type = "A"
          /\ rule.symbols = <<"a">>
          /\ states[k].lookaheads[j] \cap Terminals = {"b", "$end"}
          /\ "" \in states[k].lookaheads[j]

\* the handles of the grammar map in declaration order
Handles ==
  Flatten([a \in 1..Len(grammar.map) |-> grammar.map[a].handles])

\* the rows of the operators table that list the token
RowsOf(t) ==
  {i \in 1..Len(grammar.operators) :
     \E k \in 2..Len(grammar.operators[i]) : grammar.operators[i][k] = t}

\* the level of a token of the operator table: the 1-based index of its row
Level(t) == CHOOSE i \in RowsOf(t) : TRUE

\* the nonterminals of the grammar: the keys of its map
Nonterminals == {grammar.map[a].name : a \in 1..Len(grammar.map)}

\* the precedence of the i-th user rule as the text gives it
StatedPrecedence(i) ==
  LET opt == IF Handles[i].len = 3 /\ Handles[i].h2.t = "object"
             THEN Handles[i].h2.prec ELSE ""
      syms == rules[i].symbols
      ops == {n \in 1..Len(syms) :
                syms[n] \notin Nonterminals /\ RowsOf(syms[n]) # {}}
  IN IF opt # "" /\ RowsOf(opt) # {} THEN Level(opt)
     ELSE IF ops # {} THEN Level(syms[Max(ops)])
     ELSE 0

\* C27 as stated: the precedence of each rule is the level of options.prec
\* when that names a token in the operator table, otherwise the level of the
\* rightmost terminal of the right-hand side that is in the operator table,
\* otherwise 0; the level of a token is the 1-based index of its row in
\* `operators` and its associativity is the first element of that row
C27_AsStated ==
  GrammarProcessed =>
    /\ \A t \in DOMAIN operators :
         /\ RowsOf(t) # {}
         /\ operators[t].precedence = Level(t)
         /\ operators[t].assoc = grammar.operators[Level(t)][1]
    /\ \A i \in 1..Len(Handles) : rules[i].precedence = StatedPrecedence(i)

\* a step of parse() that reduces by a rule with right-hand side length 0
EpsilonReduce ==
  /\ pc = "parse"
  /\ shifted' = shifted
  /\ stk' # stk
  /\ lastReduce' # <<>>
  /\ lastReduce'[3] = Len(stk)
  /\ ruleData[lastReduce'[1] + 1][2] = 0

\* the three stacks keep their entries and gain one each: the symbol of the
\* left-hand side and the goto state, the value of the action, a location
PopsNothing ==
  /\ stk' = stk \o <<ruleData[lastReduce'[1] + 1][1],
                     GotoState(impl, parseTable, Last(stk),
                               ruleData[lastReduce'[1] + 1][1])>>
  /\ val' = Append(val, lastReduce'[2])
  /\ Len(loc') = Len(loc) + 1
  /\ SubSeq(loc', 1, Len(loc)) = loc

\* C28 as stated: a reduce by an empty production pops nothing, and the
\* location it pushes is the current position of the lexer
C28_AsStated ==
  [][EpsilonReduce => (PopsNothing /\ Last(loc') = yyllocOf(lexed'))]_vars


\* the ids of the states and of the symbols
StateIds == 0..(Len(states) - 1)
SymbolIdSet == {symbolIds[x] : x \in DOMAIN symbolIds}

\* C29: at the start of every iteration of the parse() loop the state stack
\* has odd length and alternates state ids and symbol ids, starting with
\* state 0, and the value stack and the location stack each have length
\* (|state stack| + 1) / 2; shifts and reduces keep it so
C29_StackShape ==
  pc = "parse" =>
    /\ Len(stk) % 2 = 1
    /\ stk[1] = 0
    /\ \A i \in 1..Len(stk) :
         IF i % 2 = 1 THEN stk[i] \in StateIds ELSE stk[i] \in SymbolIdSet
    /\ 2 * Len(val) = Len(stk) + 1
    /\ 2 * Len(loc) = Len(stk) + 1

\* the calculator has shifted NUMBER + NUMBER and reduced the first operand:
\* the stack holds the states and symbols of E + NUMBER, four values and four
\* locations
C29_Witness ==
  /\ grammar = CalcGrammar
  /\ pc = "parse"
  /\ Len(shifted) = 3
  /\ lastReduce # <<>>
  /\ Len(stk) = 7
  /\ stk[2] = symbolIds["Expression"]
  /\ stk[6] = symbolIds["NUMBER"]
  /\ Len(val) = 4
  /\ Len(loc) = 4

\* the ids of the nonterminals
TypeIds == {symbolIds[t] : t \in Types \cap DOMAIN symbolIds}

\* C30: whenever parse() reduces by a rule A -> gamma, the state uncovered
\* after popping |gamma| entries has a goto entry for A in the parse table, so
\* the state pushed after the reduce is a valid state id: every nonterminal on
\* the state stack lies between the state it was reduced in and the goto of
\* that state on it; and no table entry reduces the accept rule (rule id 0) or
\* shifts or goes to state 0
C30_GotoDefined ==
  /\ pc = "parse" =>
       \A i \in 1..Len(stk) :
         (i % 2 = 0 /\ stk[i] \in TypeIds) =>
           LET e == Lookup(parseTable, stk[i - 1], stk[i])
           IN /\ e.k = "goto"
              /\ e.n = stk[i + 1]
              /\ e.n \in 1..(Len(states) - 1)
  /\ \A k \in 1..Len(parseTable) : \A x \in DOMAIN parseTable[k] :
       LET e == parseTable[k][x]
       IN /\ ~ (e.k = "reduce" /\ e.n = 0)
          /\ e.k \in {"shift", "goto"} => e.n \in 1..(Len(states) - 1)
  /\ \A k \in DOMAIN defaultActions : defaultActions[k].n # 0

\* the calculator has reduced Expression * Expression below a pending '+':
\* state 0 is uncovered and the goto of state 0 on Expression is pushed
C30_Witness ==
  /\ grammar = CalcGrammar
  /\ pc = "parse"
  /\ lastReduce # <<>>
  /\ lastReduce[1] = 3
  /\ lastReduce[3] = 7
  /\ Len(stk) = 3
  /\ stk[2] = symbolIds["Expression"]
  /\ stk[3] = Lookup(parseTable, 0, symbolIds["Expression"]).n
  /\ stk[3] # 0
  /\ symbol = symbolIds["+"]
====
